---- MODULE Spec2Model ----
(***************************************************************************)
(* A model of catoscim.py: the CatoSCIM client (constructor, the send      *)
(* primitive, the single-request operations and the four paginated         *)
(* operations) together with the remote service as its environment, and    *)
(* of the programs of examples/ that call the client.                      *)
(*                                                                         *)
(* Python values are tagged records [t |-> <type name>, v |-> <value>]:    *)
(* a dict is a function from keys to values, a list a sequence, a str      *)
(* either a TLA+ string or a sequence of characters.  Bytes on the wire    *)
(* are sequences of tokens (one token per JSON lexeme or raw byte).        *)
(***************************************************************************)
EXTENDS Integers, Sequences, FiniteSets, TLC

(***************************************************************************)
(* Bounds of the model.                                                    *)
(***************************************************************************)
\* the backend holds at most MaxItems resources
MaxItems == 3
\* the backend serves pages of at most MaxPage resources
MaxPage == 2
\* no more than MaxCalls network requests are explored per client
MaxCalls == 4

(***************************************************************************)
(* Python values.                                                          *)
(***************************************************************************)
PyDict(f) == [t |-> "dict", v |-> f]
PyList(s) == [t |-> "list", v |-> s]
PyInt(n) == [t |-> "int", v |-> n]
PyStr(s) == [t |-> "str", v |-> s]
PyBool(b) == [t |-> "bool", v |-> b]
PySet(s) == [t |-> "set", v |-> s]
None == [t |-> "NoneType", v |-> "None"]

EmptyDict == PyDict(<<>>)

\* Python truthiness, as used by `x or y` and `if not x`
Truthy(x) ==
    CASE x.t = "NoneType" -> FALSE
      [] x.t = "str" -> x.v # ""
      [] x.t = "bool" -> x.v
      [] x.t = "int" -> x.v # 0
      [] OTHER -> TRUE

\* Python's `a or b`
PyOr(a, b) == IF Truthy(a) THEN a ELSE b

(***************************************************************************)
(* Bytes and JSON text.  A body is a sequence of tokens; BadByte is a      *)
(* byte that is not valid UTF-8 and ReplacementChar is U+FFFD.             *)
(***************************************************************************)
BadByte == "\\xff"
ReplacementChar == "\\ufffd"

Digits == {"0", "1", "2", "3", "4", "5", "6", "7", "8", "9"}
DigitVal == [d \in Digits |->
    CASE d = "0" -> 0 [] d = "1" -> 1 [] d = "2" -> 2 [] d = "3" -> 3
      [] d = "4" -> 4 [] d = "5" -> 5 [] d = "6" -> 6 [] d = "7" -> 7
      [] d = "8" -> 8 [] d = "9" -> 9]
DigitOf(n) == CHOOSE d \in Digits : DigitVal[d] = n

\* the JSON string lexemes of the model (each stands for a quoted string)
StringToks ==
    {"Resources", "totalResults", "id", "detail", "userName", "active", "members",
     "value", "display", "g1", "g2", "u1", "u2", "joe", "joe2"}
BoolToks == {"true", "false"}

\* bytes.decode('utf-8', 'replace')
Utf8DecodeReplace(bytes) ==
    [i \in DOMAIN bytes |-> IF bytes[i] = BadByte THEN ReplacementChar ELSE bytes[i]]

ParseFail == [v |-> None, ok |-> FALSE, rest |-> <<>>]

RECURSIVE ParseValue(_), ParseElems(_, _), ParseMembers(_, _)
ParseValue(toks) ==
    IF toks = <<>> THEN ParseFail
    ELSE LET h == Head(toks)
             r == Tail(toks)
         IN  CASE h \in Digits -> [v |-> PyInt(DigitVal[h]), ok |-> TRUE, rest |-> r]
               [] h \in StringToks -> [v |-> PyStr(h), ok |-> TRUE, rest |-> r]
               [] h \in BoolToks -> [v |-> PyBool(h = "true"), ok |-> TRUE, rest |-> r]
               [] h = "[" ->
                    IF r # <<>> /\ Head(r) = "]"
                    THEN [v |-> PyList(<<>>), ok |-> TRUE, rest |-> Tail(r)]
                    ELSE ParseElems(r, <<>>)
               [] h = "{" ->
                    IF r # <<>> /\ Head(r) = "}"
                    THEN [v |-> EmptyDict, ok |-> TRUE, rest |-> Tail(r)]
                    ELSE ParseMembers(r, <<>>)
               [] OTHER -> ParseFail
ParseElems(toks, acc) ==
    LET e == ParseValue(toks)
    IN  IF ~e.ok \/ e.rest = <<>> THEN ParseFail
        ELSE CASE Head(e.rest) = "," -> ParseElems(Tail(e.rest), Append(acc, e.v))
               [] Head(e.rest) = "]" ->
                    [v |-> PyList(Append(acc, e.v)), ok |-> TRUE, rest |-> Tail(e.rest)]
               [] OTHER -> ParseFail
ParseMembers(toks, f) ==
    IF Len(toks) < 3 \/ toks[1] \notin StringToks \/ toks[2] # ":" THEN ParseFail
    ELSE LET m == ParseValue(SubSeq(toks, 3, Len(toks)))
             g == (toks[1] :> m.v) @@ f
         IN  IF ~m.ok \/ m.rest = <<>> THEN ParseFail
             ELSE CASE Head(m.rest) = "," -> ParseMembers(Tail(m.rest), g)
                    [] Head(m.rest) = "}" ->
                         [v |-> PyDict(g), ok |-> TRUE, rest |-> Tail(m.rest)]
                    [] OTHER -> ParseFail

\* json.loads(text): [ok |-> FALSE] stands for JSONDecodeError
Loads(text) ==
    LET p == ParseValue(text)
    IN  IF p.ok /\ p.rest = <<>> THEN [v |-> p.v, ok |-> TRUE]
        ELSE [v |-> None, ok |-> FALSE]

\* json.dumps(value) succeeds (a set, like bytes, raises TypeError)
RECURSIVE Serialisable(_)
Serialisable(x) ==
    CASE x.t \in {"int", "str", "bool", "NoneType"} -> TRUE
      [] x.t = "list" -> \A i \in DOMAIN x.v : Serialisable(x.v[i])
      [] x.t = "dict" -> \A k \in DOMAIN x.v : Serialisable(x.v[k])
      [] OTHER -> FALSE

(***************************************************************************)
(* State.                                                                  *)
(***************************************************************************)
VARIABLES
    environ,    \* os.environ: CATO_SCIM_URL and CATO_SCIM_TOKEN (None when unset)
    ctor_args,  \* the arguments CatoSCIM(...) was called with
    ctor,       \* "none" before CatoSCIM(...), then "ok" or the exception raised
    security_warnings, \* number of SecurityWarning warnings emitted so far
    self,       \* the attributes of the client object
    urlopens,   \* number of urllib.request.urlopen calls made so far
    op,         \* the public operation last called
    pc,         \* "idle", or "loop" inside the while loop of a paginated operation
    acc,        \* the local list users / groups of a paginated operation
    backend,    \* the service answering the current paginated call
    sends,      \* the send calls of the current operation: method, path, data
    wire,       \* the requests passed to urlopen by the current operation
    last_out,   \* what the service / transport did with the latest request
    last_send,  \* what the latest send call returned or raised
    args,       \* the arguments of the operation last called
    entry_count,\* call_count when the operation last called was entered
    result,     \* what the operation returned or raised to its caller
    members_seen, \* the members argument create_group was last called with
    replies,    \* what happened to each request of wire, in the same order
    peer,       \* the attributes of a second client object of the same process
    in_use,     \* 1 when self is the client constructed first, 2 when the second
    tpc,        \* where each thread that shares the client is inside send
    loaded,     \* the value of call_count each thread has read for its increment
    invoked,    \* number of send invocations the threads have made
    cli,        \* the example program that is running, "none" when none is
    stage,      \* the call the program makes next, or "exit"
    locals,     \* the local variables of the program
    exit_status,\* the exit status of the program, -1 while it runs
    calls,      \* the operations the program has called, with what they returned
    remote      \* the user the service holds and what another client did to it

vars == <<environ, ctor_args, ctor, security_warnings, self, urlopens, op, pc, acc,
          backend, sends, wire, last_out, last_send, args, entry_count, result,
          members_seen, replies, peer, in_use, tpc, loaded, invoked,
          cli, stage, locals, exit_status, calls, remote>>

\* the state of an example program
cli_vars == <<cli, stage, locals, exit_status, calls>>

\* the state of the threads that share one client
thread_vars == <<tpc, loaded, invoked>>

\* an example program before it has assigned its local variables
NoLocals == [group |-> None, user |-> None, full_user |-> None, members |-> <<>>,
             index |-> 0]
\* no service-side user is modelled
NoRemote == [user |-> None, other |-> "none", when |-> "none"]

NoResult == [ok |-> FALSE, kind |-> "none", payload |-> None, exc |-> "none"]
Return(ok, payload) == [ok |-> ok, kind |-> "return", payload |-> payload, exc |-> "none"]
Raise(exc) == [ok |-> FALSE, kind |-> "raise", payload |-> None, exc |-> exc]

NoOutcome == [kind |-> "none"]
NoBackend == [kind |-> "none"]
\* a service holding n resources and serving them in pages of p, by offset
OffsetBackend(n, p) == [kind |-> "offset", N |-> n, P |-> p]
\* a service that answers a list request with any body at all
AnyBackend == [kind |-> "any"]
\* a service whose pages hold at least one resource while the client has
\* fewer than the totalResults it reports
ProgressBackend == [kind |-> "progress"]
\* a service whose totalResults always exceeds what the client has got
StallBackend == [kind |-> "stall"]
\* a service that answers a search on the collection coll in one page
Directory(coll) == [kind |-> "directory", coll |-> coll]

(***************************************************************************)
(* CatoSCIM.__init__                                                       *)
(***************************************************************************)
EnvUrl == PyStr("https://env.example/scim")
ArgUrl == PyStr("https://arg.example/scim")
BareUrl == PyStr("bare.example/scim")
EnvToken == PyStr("env-token")
ArgToken == PyStr("arg-token")

\* (mutant) the environment takes precedence over the argument
ResolveBaseurlEnvFirst(baseurl, env) == PyOr(env.CATO_SCIM_URL, baseurl)

\* self.baseurl = baseurl or os.environ.get('CATO_SCIM_URL')
ResolveBaseurl(baseurl, env) == PyOr(baseurl, env.CATO_SCIM_URL)
\* self.token = token or os.environ.get('CATO_SCIM_TOKEN')
ResolveToken(token, env) == PyOr(token, env.CATO_SCIM_TOKEN)

\* (mutant) only the base URL is checked
MissingConfigUrlOnly(b, t) == ~Truthy(b)

\* the two `if not ...: raise ValueError` checks
MissingConfig(b, t) == ~Truthy(b) \/ ~Truthy(t)

\* __init__(baseurl, token, verify_ssl): the exception raised, if any, and
\* the attributes set on the object
\* an argument the caller leaves out takes the default of the signature
\* __init__(self, baseurl=None, token=None, log_level='WARNING', verify_ssl=True)
Omitted == [t |-> "omitted", v |-> "omitted"]
DefaultArg(given, default) == IF given.t = "omitted" THEN default ELSE given

\* `if not self.verify_ssl: warnings.warn(<text>, SecurityWarning, stacklevel=2)`:
\* the module neither imports nor defines the name SecurityWarning and it is
\* no builtin, so evaluating the arguments raises NameError before
\* warnings.warn is called
WarnInsecure(verify_ssl) ==
    IF verify_ssl THEN [raised |-> "none", warned |-> 0]
    ELSE [raised |-> "NameError", warned |-> 0]

CatoSCIM_init(baseurl, token, verify_ssl, env) ==
    LET b == ResolveBaseurl(DefaultArg(baseurl, None), env)
        t == ResolveToken(DefaultArg(token, None), env)
        v == DefaultArg(verify_ssl, PyBool(TRUE)).v
        w == WarnInsecure(v)
    IN  IF MissingConfig(b, t)
        THEN [self |-> [baseurl |-> b, token |-> t], raised |-> "ValueError",
              warned |-> 0]
        ELSE [self |-> [baseurl |-> b, token |-> t, verify_ssl |-> v,
                        call_count |-> 0], raised |-> w.raised,
              warned |-> w.warned]

(***************************************************************************)
(* CatoSCIM.send                                                           *)
(***************************************************************************)
\* urllib.request.Request(url=...) raises ValueError("unknown url type")
\* for a URL without a scheme; every path starts with "/", so the scheme
\* is the base URL's
UrlHasScheme(b) == b \in {EnvUrl.v, ArgUrl.v}

\* (mutant) the token is read from the environment at every request
HeadersEnvToken(s) == [Authorization |-> "Bearer " \o environ.CATO_SCIM_TOKEN.v,
                       ContentType |-> "application/json"]

Headers(s) == [Authorization |-> "Bearer " \o s.token.v,
               ContentType |-> "application/json"]

BuildRequest(s, method, path, request_data) ==
    [method |-> method, url |-> <<s.baseurl.v>> \o path, headers |-> Headers(s),
     data |-> request_data]

\* (mutant) the body is passed on without decoding
HttpErrorPayloadRaw(out) ==
    PyDict([status |-> PyInt(out.code), error |-> PyStr(out.body)])

\* except HTTPError as e
HttpErrorPayload(out) ==
    PyDict([status |-> PyInt(out.code), error |-> PyStr(Utf8DecodeReplace(out.body))])
\* except URLError as e
UrlErrorPayload(out) ==
    PyDict([error |-> PyStr("<urlopen error " \o out.reason \o ">"),
            reason |-> PyStr(out.reason)])
\* except Exception as e
OtherErrorPayload(msg) == PyDict([error |-> PyStr(msg)])

\* (mutant) an empty body is left as it is
NormaliseBodyNever(body) == body

\* if result_data == b'': result_data = b'{}'
NormaliseBody(body) == IF body = <<>> THEN <<"{", "}">> ELSE body

\* return True, json.loads(result_data.decode('utf-8','replace'))
DecodeResponse(body) ==
    LET j == Loads(Utf8DecodeReplace(NormaliseBody(body)))
    IN  IF j.ok THEN Return(TRUE, j.v) ELSE Raise("JSONDecodeError")

\* (mutant) `except URLError` comes before `except HTTPError`, its subclass
AttemptUrlErrorFirst(s, req, out) ==
    [self |-> [s EXCEPT !.call_count = @ + 1],
     sent |-> <<req>>,
     res |-> CASE out.kind = "http" ->
                    Return(FALSE, PyDict([error |-> PyStr("HTTP Error"),
                                          reason |-> PyStr("Not Found")]))
               [] out.kind = "url" -> Return(FALSE, UrlErrorPayload(out))
               [] out.kind = "exc" -> Return(FALSE, OtherErrorPayload(out.msg))
               [] out.kind = "ok" -> DecodeResponse(out.body)]

\* (mutant) the counter is incremented after urlopen has returned
AttemptCountAfter(s, req, out) ==
    [self |-> IF out.kind = "ok" THEN [s EXCEPT !.call_count = @ + 1] ELSE s,
     sent |-> <<req>>,
     res |-> CASE out.kind = "http" -> Return(FALSE, HttpErrorPayload(out))
               [] out.kind = "url" -> Return(FALSE, UrlErrorPayload(out))
               [] out.kind = "exc" -> Return(FALSE, OtherErrorPayload(out.msg))
               [] out.kind = "ok" -> DecodeResponse(out.body)]

\* (mutant) a request that failed with an HTTP or transport error is sent again
AttemptRetry(s, req, out) ==
    [self |-> [s EXCEPT !.call_count = @ + 1],
     sent |-> IF out.kind \in {"http", "url"} THEN <<req, req>> ELSE <<req>>,
     res |-> CASE out.kind = "http" -> Return(FALSE, HttpErrorPayload(out))
               [] out.kind = "url" -> Return(FALSE, UrlErrorPayload(out))
               [] out.kind = "exc" -> Return(FALSE, OtherErrorPayload(out.msg))
               [] out.kind = "ok" -> DecodeResponse(out.body)]

\* the try block once the Request object exists: the counter, then urlopen
Attempt(s, req, out) ==
    [self |-> [s EXCEPT !.call_count = @ + 1],
     sent |-> <<req>>,
     res |-> CASE out.kind = "http" -> Return(FALSE, HttpErrorPayload(out))
               [] out.kind = "url" -> Return(FALSE, UrlErrorPayload(out))
               [] out.kind = "exc" -> Return(FALSE, OtherErrorPayload(out.msg))
               [] out.kind = "ok" -> DecodeResponse(out.body)]

\* (mutant) the counter is incremented on entry, before the request is built
SendCountFirst(s, method, path, request_data, out) ==
    LET counted == [s EXCEPT !.call_count = @ + 1]
    IN  IF request_data.t # "NoneType" /\ ~Serialisable(request_data)
        THEN [self |-> counted, sent |-> <<>>,
              res |-> Raise("TypeError: not JSON serializable")]
        ELSE IF ~UrlHasScheme(s.baseurl.v)
        THEN [self |-> counted, sent |-> <<>>,
              res |-> Return(FALSE, OtherErrorPayload("unknown url type"))]
        ELSE [Attempt(s, BuildRequest(s, method, path, request_data), out)
                EXCEPT !.self = counted]

\* send(method, path, request_data) when the service / transport answers a
\* request with `out`: the new attributes, the requests issued, the result
Send(s, method, path, request_data, out) ==
    IF request_data.t # "NoneType" /\ ~Serialisable(request_data)
    THEN [self |-> s, sent |-> <<>>, res |-> Raise("TypeError: not JSON serializable")]
    ELSE IF ~UrlHasScheme(s.baseurl.v)
    THEN [self |-> s, sent |-> <<>>,
          res |-> Return(FALSE, OtherErrorPayload("unknown url type"))]
    ELSE Attempt(s, BuildRequest(s, method, path, request_data), out)

(***************************************************************************)
(* The remote service and the transport: what can happen to one request.   *)
(***************************************************************************)
HttpError(code, body) == [kind |-> "http", code |-> code, body |-> body]
UrlError(reason) == [kind |-> "url", reason |-> reason]
OtherError(msg) == [kind |-> "exc", msg |-> msg]
Response(body) == [kind |-> "ok", body |-> body]

Failures ==
    {HttpError(404, <<"detail">>), HttpError(500, <<"detail", BadByte>>),
     UrlError("timed out"),
     OtherError("Remote end closed connection without response")}

\* bodies of 2xx answers to a single-resource request: empty (DELETE), JSON
\* objects, truncated JSON, bytes that are not UTF-8
ResourceBodies ==
    {<<>>, <<"{", "}">>, <<"{", "id", ":", "1", "}">>, <<"{", "id", ":">>, <<BadByte>>}

RECURSIVE JoinItems(_)
JoinItems(items) ==
    IF items = <<>> THEN <<>>
    ELSE IF Len(items) = 1 THEN <<DigitOf(items[1])>>
    ELSE <<DigitOf(items[1]), ",">> \o JoinItems(Tail(items))

\* the body of a SCIM ListResponse
ListBody(resources, total) ==
    <<"{", "Resources", ":", "[">> \o JoinItems(resources)
        \o <<"]", ",", "totalResults", ":", DigitOf(total), "}">>

Min(a, b) == IF a < b THEN a ELSE b

\* the resources of a backend holding n items, in server order
Items(n) == [i \in 1..n |-> i]

\* the startIndex query parameter of a request, as the service reads it
StartIndexOf(req) ==
    LET text == req.url[Len(req.url)]
    IN  CHOOSE n \in 0..99 : ToString(n) = text

\* the page an offset-based backend serves for startIndex = start
OffsetPage(b, start) ==
    ListBody(SubSeq(Items(b.N), start + 1, Min(start + b.P, b.N)), b.N)

\* what a service that keeps no pagination contract may answer: pages that
\* repeat or skip resources, any totalResults, and bodies that are no
\* ListResponse at all
AnyPages ==
    {ListBody(r, n) : r \in {<<>>, <<1>>, <<2, 1>>}, n \in {0, 2, 3}}
BrokenPages ==
    {<<>>, <<"[", "]">>, <<"{", "Resources", ":", "[", "]", "}">>,
     <<"{", "Resources", ":", "1", ",", "totalResults", ":", "1", "}">>,
     <<"{", "Resources", ":", "[", "1", "]", ",", "totalResults", ":", "[", "]", "}">>,
     <<"{", "Resources">>}

ResourceOutcomes == Failures \cup {Response(b) : b \in ResourceBodies}

\* the pages of a service that makes progress, for startIndex = start: any
\* totalResults up to MaxItems and, while start is below it, at least one
\* resource
ProgressPages(start) ==
    {ListBody(q[1], q[2]) :
        q \in {x \in {<<>>, <<1>>, <<2, 1>>} \X (0..MaxItems) :
                  start < x[2] => x[1] # <<>>}}

\* the pages of a service whose totalResults stays ahead of the client, for
\* startIndex = start: no resource or one, and a totalResults larger than
\* what the client holds once it has added the page
StallPages(start) == {ListBody(r, start + Len(r) + 1) : r \in {<<>>, <<1>>}}

\* JSON objects of the directory: a group, a user, a resource without id
GroupItem == <<"{", "id", ":", "g1", "}">>
UserItem(id) == <<"{", "id", ":", id, ",", "userName", ":", "joe", "}">>
NoIdItem == <<"{", "userName", ":", "joe", "}">>

RECURSIVE JoinObjects(_)
JoinObjects(items) ==
    IF items = <<>> THEN <<>>
    ELSE IF Len(items) = 1 THEN items[1]
    ELSE items[1] \o <<",">> \o JoinObjects(Tail(items))

\* the body of a SCIM ListResponse whose resources are JSON objects
ObjectListBody(items, total) ==
    <<"{", "Resources", ":", "[">> \o JoinObjects(items)
        \o <<"]", ",", "totalResults", ":", DigitOf(total), "}">>

\* what a search of the collection coll may match: nothing, one resource,
\* two resources, one resource that carries no id
DirectoryPages(coll) ==
    LET one == IF coll = "Groups" THEN GroupItem ELSE UserItem("u1")
        two == IF coll = "Groups" THEN <<"{", "id", ":", "g2", "}">> ELSE UserItem("u2")
    IN  {ObjectListBody(<<>>, 0), ObjectListBody(<<one>>, 1),
         ObjectListBody(<<one, two>>, 2), ObjectListBody(<<NoIdItem>>, 1)}

\* the 2xx answers the service b may give to the list request req
PageAnswers(b, req) ==
    CASE b.kind = "offset" -> {Response(OffsetPage(b, StartIndexOf(req)))}
      [] b.kind = "progress" -> {Response(x) : x \in ProgressPages(StartIndexOf(req))}
      [] b.kind = "stall" -> {Response(x) : x \in StallPages(StartIndexOf(req))}
      [] b.kind = "directory" -> {Response(x) : x \in DirectoryPages(b.coll)}
      [] OTHER -> {Response(x) : x \in AnyPages \cup BrokenPages}

(***************************************************************************)
(* Single-request operations.  Each builds its method, path and body and   *)
(* returns what send returned.                                             *)
(***************************************************************************)
UserSchema == "urn:ietf:params:scim:schemas:core:2.0:User"
GroupSchema == "urn:ietf:params:scim:schemas:core:2.0:Group"
PatchOpSchema == "urn:ietf:params:scim:api:messages:2.0:PatchOp"

Call(method, path, data) == [method |-> method, path |-> path, data |-> data]

\* (mutant) the value is wrapped in a list of its own
PatchBodyWrapped(operation, path, value) ==
    PyDict([schemas |-> PyList(<<PyStr(PatchOpSchema)>>),
            Operations |-> PyList(<<PyDict([op |-> PyStr(operation),
                                            path |-> PyStr(path),
                                            value |-> PyList(<<value>>)])>>)])

PatchBody(operation, path, value) ==
    PyDict([schemas |-> PyList(<<PyStr(PatchOpSchema)>>),
            Operations |-> PyList(<<PyDict([op |-> PyStr(operation),
                                            path |-> PyStr(path),
                                            value |-> value])>>)])

add_members_call(groupid, members) ==
    Call("PATCH", <<"/Groups/", groupid>>, PatchBody("add", "members", members))

\* (mutant) the default is one list shared by all calls, which holds what an
\* earlier call was given
create_group_call_shared(displayName, externalId, members) ==
    Call("POST", <<"/Groups">>,
         PyDict([members |-> IF members.t # "NoneType" THEN members
                             ELSE IF members_seen = "None" THEN PyList(<<>>)
                             ELSE PyList(<<PyDict([value |->
                                        PyStr("6283630dfd7ec758a8bf4b61")])>>),
                 schemas |-> PyList(<<PyStr(GroupSchema)>>),
                 displayName |-> PyStr(displayName),
                 externalId |-> PyStr(externalId)]))

create_group_call(displayName, externalId, members) ==
    Call("POST", <<"/Groups">>,
         PyDict([members |-> IF members.t = "NoneType" THEN PyList(<<>>) ELSE members,
                 schemas |-> PyList(<<PyStr(GroupSchema)>>),
                 displayName |-> PyStr(displayName),
                 externalId |-> PyStr(externalId)]))

\* string.ascii_letters + string.digits, a character per element
AsciiLetters ==
    {"a", "b", "c", "d", "e", "f", "g", "h", "i", "j", "k", "l", "m",
     "n", "o", "p", "q", "r", "s", "t", "u", "v", "w", "x", "y", "z",
     "A", "B", "C", "D", "E", "F", "G", "H", "I", "J", "K", "L", "M",
     "N", "O", "P", "Q", "R", "S", "T", "U", "V", "W", "X", "Y", "Z"}
Alphabet == AsciiLetters \cup Digits

\* for i in range(10)
PasswordLength == 10

\* new_password += <the n-th value secrets.choice returned>, n times over
RECURSIVE Joined(_, _)
Joined(draws, n) ==
    IF n = 0 THEN <<>> ELSE Append(Joined(draws, n - 1), draws[n])

\* (mutant) the loop runs one time less
GeneratePasswordShort(draws) == Joined(draws, PasswordLength - 1)

\* the password create_user builds from the values secrets.choice returns
GeneratePassword(draws) == Joined(draws, PasswordLength)

create_user_call(email, givenName, familyName, externalId, password, active, draws) ==
    Call("POST", <<"/Users">>,
         PyDict([schemas |-> PyList(<<PyStr(UserSchema)>>),
                 externalId |-> PyStr(externalId),
                 password |-> IF password.t = "NoneType"
                              THEN PyStr(GeneratePassword(draws))
                              ELSE password,
                 active |-> PyBool(active),
                 userName |-> PyStr(email),
                 name |-> PyDict([givenName |-> PyStr(givenName),
                                  familyName |-> PyStr(familyName)]),
                 emails |-> PyList(<<PyDict([value |-> PyStr(email),
                                             primary |-> PyBool(TRUE)])>>)]))

disable_group_call(groupid) == Call("DELETE", <<"/Groups/", groupid>>, None)
disable_user_call(userid) == Call("DELETE", <<"/Users/", userid>>, None)
get_group_call(groupid) == Call("GET", <<"/Groups/", groupid>>, None)
get_user_call(userid) == Call("GET", <<"/Users/", userid>>, None)

remove_members_call(groupid, members) ==
    Call("PATCH", <<"/Groups/", groupid>>, PatchBody("remove", "members", members))

rename_group_call(groupid, new_name) ==
    Call("PATCH", <<"/Groups/", groupid>>,
         PatchBody("replace", "displayName", PyStr(new_name)))

update_group_call(groupid, group_data) == Call("PUT", <<"/Groups/", groupid>>, group_data)
update_user_call(userid, user_data) == Call("PUT", <<"/Users/", userid>>, user_data)

\* (mutant) a failure is reported with a payload of the operation's own
ReturnOwnError(r) ==
    IF r.kind = "return" /\ ~r.ok
    THEN Return(FALSE, OtherErrorPayload("request failed"))
    ELSE r

\* `return self.send(...)` and `success, result = self.send(...); return success, result`
ReturnVerbatim(r) == r

\* (mutant) the counter is an attribute of the class, shared by its instances
BystanderSharedCounter(p, s) == [p EXCEPT !.call_count = s.call_count]

\* what a send on the instance that ends with attributes s does to p, the
\* attributes of another instance: self.call_count is set on the instance
Bystander(p, s) == p

\* the threads that call operations of one client object at the same time
Threads == {1, 2}

\* a constructed client whose caller is about to make its next call
Ready ==
    /\ ctor = "ok"
    /\ pc = "idle"
    /\ result.kind = "none"
    /\ urlopens < MaxCalls

\* one public single-request operation, from call to return, its request
\* meeting one of the outcomes `outs`
Perform(name, a, c, outs) ==
    /\ Ready
    /\ \E out \in outs :
         LET s == Send(self, c.method, c.path, c.data, out)
         IN  /\ self' = s.self
             /\ peer' = Bystander(peer, s.self)
             /\ urlopens' = urlopens + Len(s.sent)
             /\ wire' = s.sent
             /\ replies' = IF s.sent = <<>> THEN <<>> ELSE <<out>>
             /\ last_out' = IF s.sent = <<>> THEN NoOutcome ELSE out
             /\ last_send' = s.res
             /\ result' = ReturnVerbatim(s.res)
    /\ op' = name
    /\ args' = a
    /\ sends' = <<c>>
    /\ entry_count' = self.call_count
    /\ acc' = <<>>
    /\ backend' = NoBackend
    /\ members_seen' = IF name = "create_group" /\ a.members # "None"
                       THEN a.members ELSE members_seen
    /\ UNCHANGED <<environ, ctor_args, ctor, security_warnings, pc, in_use>>
    /\ UNCHANGED <<thread_vars, cli_vars>>

Single(name, a, c) == Perform(name, a, c, ResourceOutcomes) /\ UNCHANGED remote

(***************************************************************************)
(* The arguments callers pass, named so that they can be enumerated.       *)
(***************************************************************************)
Ids == {"abc"}

MemberLists == {"one", "set"}
MembersArg(m) ==
    CASE m = "empty" -> PyList(<<>>)
      [] m = "one" -> PyList(<<PyDict([value |-> PyStr("6283630dfd7ec758a8bf4b61")])>>)
      [] m = "set" -> PySet(<<"6283630dfd7ec758a8bf4b61">>)
      [] m = "None" -> None

Objects == {"full", "set"}
ObjectArg(o) ==
    CASE o = "full" -> PyDict([id |-> PyStr("abc"), active |-> PyBool(TRUE)])
      [] o = "set" -> PySet(<<"abc">>)

Passwords == {"None", "given"}
\* a str is a sequence of characters here
PasswordArg(p) ==
    IF p = "None" THEN None ELSE PyStr(<<"s", "3", "c", "r", "e", "t", "!">>)
\* what PasswordLength calls of secrets.choice(Alphabet) can return: the same
\* character every time, or a mix of letters and digits
Draws ==
    {[i \in 1..PasswordLength |-> c] : c \in {"a", "Z", "0"}}
        \cup {[i \in 1..PasswordLength |->
                  IF i % 3 = 1 THEN "q" ELSE IF i % 3 = 2 THEN "K" ELSE "7"]}

add_members ==
    \E g \in Ids, m \in MemberLists :
        Single("add_members", [members |-> m, groupid |-> g],
               add_members_call(g, MembersArg(m)))

create_group ==
    \E m \in MemberLists \cup {"None"} :
        Single("create_group", [members |-> m],
               create_group_call("Engineering", "ext-1", MembersArg(m)))

\* secrets.choice is called only when no password was passed
create_user ==
    \E p \in Passwords :
        \E d \in IF p = "None" THEN Draws ELSE {<<>>} :
            Single("create_user", [draws |-> d, password |-> p],
                   create_user_call("joe.chip@cato.com", "joe", "chip", "ext-2",
                                    PasswordArg(p), TRUE, d))

disable_group ==
    \E g \in Ids : Single("disable_group", [groupid |-> g], disable_group_call(g))

disable_user ==
    \E u \in Ids : Single("disable_user", [userid |-> u], disable_user_call(u))

get_group ==
    \E g \in Ids : Single("get_group", [groupid |-> g], get_group_call(g))

get_user ==
    \E u \in Ids : Single("get_user", [userid |-> u], get_user_call(u))

remove_members ==
    \E g \in Ids, m \in MemberLists :
        Single("remove_members", [members |-> m, groupid |-> g],
               remove_members_call(g, MembersArg(m)))

GroupNames == {"Platform"}

rename_group ==
    \E g \in Ids, n \in GroupNames :
        Single("rename_group", [groupid |-> g, new_name |-> n],
               rename_group_call(g, n))

update_group ==
    \E g \in Ids, o \in Objects :
        Single("update_group", [data |-> o, groupid |-> g],
               update_group_call(g, ObjectArg(o)))

update_user ==
    \E u \in Ids, o \in Objects :
        Single("update_user", [data |-> o, userid |-> u],
               update_user_call(u, ObjectArg(o)))

(***************************************************************************)
(* Paginated operations.                                                   *)
(***************************************************************************)
\* (mutant) '&' and '=' are passed as safe characters
QuoteCharAmpSafe(c) ==
    CASE c = " " -> "%20"
      [] c = "\"" -> "%22"
      [] c = "#" -> "%23"
      [] c = "%" -> "%25"
      [] OTHER -> c

\* urllib.parse.quote with its default safe characters
QuoteChar(c) ==
    CASE c = " " -> "%20"
      [] c = "\"" -> "%22"
      [] c = "&" -> "%26"
      [] c = "=" -> "%3D"
      [] c = "#" -> "%23"
      [] c = "%" -> "%25"
      [] OTHER -> c
Quote(text) == [i \in DOMAIN text |-> QuoteChar(text[i])]

\* f'{field} eq "{value}"'
FilterExpr(field, value) == <<field, " ", "eq", " ", "\"">> \o value \o <<"\"">>

SearchValues == {"plain", "special"}
SearchValue(v) ==
    IF v = "plain" THEN <<"Engineering">>
    ELSE <<"a", "&", "b", "=", "1", " ", "#", "%", "\"", "/">>

find_group_path(a, n) ==
    <<"/Groups?filter=">> \o Quote(FilterExpr("displayName", SearchValue(a.value)))
        \o <<"&startIndex=", ToString(n)>>
find_users_path(a, n) ==
    <<"/Users?filter=">> \o Quote(FilterExpr(a.field, SearchValue(a.value)))
        \o <<"&startIndex=", ToString(n)>>
get_groups_path(a, n) == <<"/Groups?startIndex=", ToString(n)>>

\* (mutant) startIndex counts from 1
get_users_path_from_one(a, n) == <<"/Users?startIndex=", ToString(n + 1)>>

get_users_path(a, n) == <<"/Users?startIndex=", ToString(n)>>

\* (mutant) the accumulated list is lost when the loop goes round
ContinueReset(list) == [acc |-> <<>>, pc |-> "loop", result |-> NoResult]

Continue(list) == [acc |-> list, pc |-> "loop", result |-> NoResult]
Leave(res) == [acc |-> <<>>, pc |-> "idle", result |-> res]

\* (mutant) the loop stops one resource short
StopConditionOffByOne(list, total) == Len(list) + 1 >= total

\* (mutant) the loop stops only once it holds more than totalResults
StopConditionStrict(list, total) == Len(list) > total

\* (mutant) the loop also stops when it has nothing after a page
StopConditionOrNothing(list, total) == Len(list) >= total \/ list = <<>>

\* the stop condition: len(users) >= response["totalResults"]
StopCondition(list, total) == Len(list) >= total

\* (mutant) a failed page ends the loop with `break`
OnErrorBreak(list, response) == Leave(Return(TRUE, PyList(list)))

\* `if not success: return False, response`
OnError(list, response) == Leave(Return(FALSE, response))

\* (mutant) a resource the list already holds is not added again
ExtendDistinct(list, resources) ==
    list \o SelectSeq(resources, LAMBDA x : \A i \in DOMAIN list : list[i] # x)

\* `for user in response["Resources"]: users.append(user)`
Extend(list, resources) == list \o resources

\* (mutant) no more than the first match is returned
ReturnFirst(list) == Return(TRUE, PyList(SubSeq(list, 1, Min(Len(list), 1))))

\* `return True, users`
ReturnAll(list) == Return(TRUE, PyList(list))

\* the body of the while loop after send has returned or raised r
PageStep(list, r) ==
    IF r.kind = "raise" THEN Leave(r)
    ELSE IF ~r.ok THEN OnError(list, r.payload)
    ELSE LET response == r.payload
         IN  IF response.t # "dict" THEN Leave(Raise("TypeError"))
             ELSE IF "Resources" \notin DOMAIN response.v
                     \/ "totalResults" \notin DOMAIN response.v
             THEN Leave(Raise("KeyError"))
             ELSE LET resources == response.v.Resources
                      total == response.v.totalResults
                  IN  CASE resources.t = "int" -> Leave(Raise("TypeError"))
                        [] resources.t = "list" /\ total.t = "list" ->
                             Leave(Raise("TypeError"))
                        [] resources.t = "list" /\ total.t = "int" ->
                             LET grown == Extend(list, resources.v)
                             IN  IF StopCondition(grown, total.v)
                                 THEN Leave(ReturnAll(grown))
                                 ELSE Continue(grown)

OffsetBackends == {OffsetBackend(n, p) : n \in 0..MaxItems, p \in 1..MaxPage}

\* the call of a paginated operation, up to the head of its loop, against
\* one of the services `backends`
EnterWith(name, a, backends) ==
    /\ Ready
    /\ op' = name
    /\ args' = a
    /\ pc' = "loop"
    /\ acc' = <<>>
    /\ sends' = <<>>
    /\ wire' = <<>>
    /\ replies' = <<>>
    /\ \E b \in backends : backend' = b
    /\ last_out' = NoOutcome
    /\ last_send' = NoResult
    /\ result' = NoResult
    /\ entry_count' = self.call_count
    /\ UNCHANGED <<environ, ctor_args, ctor, security_warnings, self, urlopens,
                   members_seen, peer, in_use>>
    /\ UNCHANGED <<thread_vars, cli_vars, remote>>

Enter(name, a) == EnterWith(name, a, OffsetBackends \cup {AnyBackend})

\* send and the rest of the loop body when the request meets outcome `out`
Round(path, out) ==
    LET s == Send(self, "GET", path, None, out)
        n == PageStep(acc, s.res)
    IN  /\ self' = s.self
        /\ peer' = Bystander(peer, s.self)
        /\ urlopens' = urlopens + Len(s.sent)
        /\ wire' = wire \o s.sent
        /\ replies' = IF s.sent = <<>> THEN replies ELSE Append(replies, out)
        /\ last_out' = IF s.sent = <<>> THEN NoOutcome ELSE out
        /\ last_send' = s.res
        /\ pc' = n.pc
        /\ acc' = n.acc
        /\ result' = n.result

\* one iteration of the loop of the paginated operation `name`: its request
\* fails or is answered
Iterate(name, path) ==
    /\ pc = "loop"
    /\ op = name
    /\ urlopens < MaxCalls
    /\ \/ \E out \in Failures : Round(path, out)
       \/ \E out \in PageAnswers(backend, BuildRequest(self, "GET", path, None)) :
            Round(path, out)
    /\ sends' = Append(sends, Call("GET", path, None))
    /\ UNCHANGED <<environ, ctor_args, ctor, security_warnings, op, args,
                   entry_count, backend, members_seen, in_use>>
    /\ UNCHANGED <<thread_vars, cli_vars, remote>>

find_group ==
    \E v \in SearchValues : Enter("find_group", [value |-> v])
find_group_loop == Iterate("find_group", find_group_path(args, Len(acc)))

find_users ==
    \E f \in {"userName"}, v \in SearchValues :
        Enter("find_users", [value |-> v, field |-> f])
find_users_loop == Iterate("find_users", find_users_path(args, Len(acc)))

get_groups == Enter("get_groups", <<>>)
get_groups_loop == Iterate("get_groups", get_groups_path(args, Len(acc)))

get_users == Enter("get_users", <<>>)
get_users_loop == Iterate("get_users", get_users_path(args, Len(acc)))

(***************************************************************************)
(* Specifications.                                                         *)
(***************************************************************************)
Quiet ==
    /\ urlopens = 0
    /\ op = "none"
    /\ pc = "idle"
    /\ acc = <<>>
    /\ backend = NoBackend
    /\ sends = <<>>
    /\ wire = <<>>
    /\ replies = <<>>
    /\ last_out = NoOutcome
    /\ last_send = NoResult
    /\ args = <<>>
    /\ entry_count = 0
    /\ result = NoResult
    /\ members_seen = "None"
    /\ security_warnings = 0
    /\ in_use = 1
    /\ tpc = [t \in Threads |-> "idle"]
    /\ loaded = [t \in Threads |-> 0]
    /\ invoked = 0
    /\ cli = "none"
    /\ stage = "none"
    /\ locals = NoLocals
    /\ exit_status = -1
    /\ calls = <<>>

\* a client constructed from the environment, or with a base URL that has
\* no scheme, before its first operation
Init ==
    /\ environ = [CATO_SCIM_URL |-> EnvUrl, CATO_SCIM_TOKEN |-> EnvToken]
    /\ ctor_args \in [baseurl : {Omitted, BareUrl}, token : {Omitted, ArgToken},
                      verify_ssl : {Omitted}]
    /\ ctor = "ok"
    /\ self = CatoSCIM_init(ctor_args.baseurl, ctor_args.token,
                            ctor_args.verify_ssl, environ).self
    /\ peer = CatoSCIM_init(ArgUrl, ArgToken, Omitted, environ).self
    /\ remote = NoRemote
    /\ Quiet

\* the caller has taken what the operation returned or raised and goes on
\* to its next call on the same client
NextCall ==
    /\ ctor = "ok"
    /\ pc = "idle"
    /\ result.kind # "none"
    /\ op' = "none"
    /\ acc' = <<>>
    /\ backend' = NoBackend
    /\ sends' = <<>>
    /\ wire' = <<>>
    /\ replies' = <<>>
    /\ last_out' = NoOutcome
    /\ last_send' = NoResult
    /\ args' = <<>>
    /\ result' = NoResult
    /\ entry_count' = self.call_count
    /\ UNCHANGED <<environ, ctor_args, ctor, security_warnings, self, urlopens, pc,
                   members_seen, peer, in_use>>
    /\ UNCHANGED <<thread_vars, cli_vars, remote>>

Next ==
    \/ NextCall
    \/ add_members \/ create_group \/ create_user \/ disable_group
    \/ disable_user \/ get_group \/ get_user \/ remove_members
    \/ rename_group \/ update_group \/ update_user
    \/ find_group \/ find_group_loop \/ find_users \/ find_users_loop
    \/ get_groups \/ get_groups_loop \/ get_users \/ get_users_loop

Spec == Init /\ [][Next]_vars

\* CatoSCIM(baseurl, token, verify_ssl=...) in a process whose environment
\* is environ
Construct ==
    /\ ctor = "none"
    /\ \E a \in [baseurl : {Omitted, None, PyStr(""), ArgUrl, BareUrl},
                 token : {Omitted, None, PyStr(""), ArgToken},
                 verify_ssl : {Omitted, PyBool(TRUE), PyBool(FALSE)}] :
         LET c == CatoSCIM_init(a.baseurl, a.token, a.verify_ssl, environ)
         IN  /\ ctor_args' = a
             /\ ctor' = IF c.raised = "none" THEN "ok" ELSE c.raised
             /\ security_warnings' = security_warnings + c.warned
             /\ self' = c.self
    /\ UNCHANGED <<environ, urlopens, op, pc, acc, backend, sends, wire,
                   last_out, last_send, args, entry_count, result, members_seen,
                   replies, peer, in_use>>
    /\ UNCHANGED <<thread_vars, cli_vars, remote>>

InitProcess ==
    /\ environ \in [CATO_SCIM_URL : {None, PyStr(""), EnvUrl},
                    CATO_SCIM_TOKEN : {None, PyStr(""), EnvToken}]
    /\ ctor_args = <<>>
    /\ ctor = "none"
    /\ self = <<>>
    /\ peer = <<>>
    /\ remote = NoRemote
    /\ Quiet

NextProcess == Construct \/ get_user \/ disable_user \/ NextCall

SpecConstruct == InitProcess /\ [][NextProcess]_vars

(***************************************************************************)
(* The paginated operations on their own, run to completion.  A call in    *)
(* progress blocks its caller and goes round its loop until it returns:    *)
(* every request is answered or fails, so each loop action is weakly fair. *)
(***************************************************************************)
LiveBackends == OffsetBackends \cup {ProgressBackend, StallBackend}

\* the requests a call against a service that makes progress can need fit
\* within the MaxCalls requests explored per client
HasBudget == urlopens + MaxItems <= MaxCalls

find_group_live ==
    /\ HasBudget
    /\ \E v \in SearchValues : EnterWith("find_group", [value |-> v], LiveBackends)

find_users_live ==
    /\ HasBudget
    /\ \E f \in {"userName"}, v \in SearchValues :
         EnterWith("find_users", [value |-> v, field |-> f], LiveBackends)

get_groups_live == HasBudget /\ EnterWith("get_groups", <<>>, LiveBackends)

get_users_live == HasBudget /\ EnterWith("get_users", <<>>, LiveBackends)

NextLoop ==
    \/ NextCall
    \/ find_group_live \/ find_users_live \/ get_groups_live \/ get_users_live
    \/ find_group_loop \/ find_users_loop \/ get_groups_loop \/ get_users_loop

SpecLoop ==
    /\ Init
    /\ [][NextLoop]_vars
    /\ WF_vars(find_group_loop)
    /\ WF_vars(find_users_loop)
    /\ WF_vars(get_groups_loop)
    /\ WF_vars(get_users_loop)

(***************************************************************************)
(* Two client objects in one process.  The caller uses one of them at a    *)
(* time and may turn to the other between two calls.                       *)
(***************************************************************************)
Switch ==
    /\ Ready
    /\ self' = peer
    /\ peer' = self
    /\ in_use' = 3 - in_use
    /\ entry_count' = peer.call_count
    /\ UNCHANGED <<environ, ctor_args, ctor, security_warnings, urlopens, op, pc, acc,
                   backend, sends, wire, last_out, last_send, args, result,
                   members_seen, replies>>
    /\ UNCHANGED <<thread_vars, cli_vars, remote>>

NextTwo ==
    \/ NextCall \/ Switch
    \/ get_user \/ update_user \/ disable_group
    \/ get_users \/ get_users_loop

SpecTwo == Init /\ [][NextTwo]_vars

(***************************************************************************)
(* One client object shared by the threads of Threads, each calling        *)
(* get_user.  send holds no lock: `self.call_count += 1` reads the         *)
(* attribute, adds one and writes it back, and another thread can run      *)
(* between the read and the write.                                         *)
(***************************************************************************)
\* thread t calls get_user: send serialises nothing and builds the Request
thread_send(t) ==
    /\ ctor = "ok"
    /\ tpc[t] = "idle"
    /\ invoked < MaxCalls
    /\ tpc' = [tpc EXCEPT ![t] = "built"]
    /\ invoked' = invoked + 1
    /\ UNCHANGED <<environ, ctor_args, ctor, security_warnings, self, urlopens, op,
                   pc, acc, backend, sends, wire, last_out, last_send, args,
                   entry_count, result, members_seen, replies, peer, in_use, loaded>>
    /\ UNCHANGED <<cli_vars, remote>>

\* the read of self.call_count
thread_load(t) ==
    /\ tpc[t] = "built"
    /\ loaded' = [loaded EXCEPT ![t] = self.call_count]
    /\ tpc' = [tpc EXCEPT ![t] = "loaded"]
    /\ UNCHANGED <<environ, ctor_args, ctor, security_warnings, self, urlopens, op,
                   pc, acc, backend, sends, wire, last_out, last_send, args,
                   entry_count, result, members_seen, replies, peer, in_use, invoked>>
    /\ UNCHANGED <<cli_vars, remote>>

\* the write of the value read, plus one
thread_store(t) ==
    /\ tpc[t] = "loaded"
    /\ self' = [self EXCEPT !.call_count = loaded[t] + 1]
    /\ tpc' = [tpc EXCEPT ![t] = "counted"]
    /\ UNCHANGED <<environ, ctor_args, ctor, security_warnings, urlopens, op,
                   pc, acc, backend, sends, wire, last_out, last_send, args,
                   entry_count, result, members_seen, replies, peer, in_use, loaded,
                   invoked>>
    /\ UNCHANGED <<cli_vars, remote>>

\* urlopen, the reply or the failure, and the return of send and get_user
thread_urlopen(t) ==
    /\ tpc[t] = "counted"
    /\ urlopens' = urlopens + 1
    /\ \E out \in ResourceOutcomes : last_out' = out
    /\ tpc' = [tpc EXCEPT ![t] = "idle"]
    /\ UNCHANGED <<environ, ctor_args, ctor, security_warnings, self, op,
                   pc, acc, backend, sends, wire, last_send, args,
                   entry_count, result, members_seen, replies, peer, in_use, loaded,
                   invoked>>
    /\ UNCHANGED <<cli_vars, remote>>

\* a client whose requests can be built
InitThreads == Init /\ UrlHasScheme(self.baseurl.v)

NextThreads ==
    \E t \in Threads :
        thread_send(t) \/ thread_load(t) \/ thread_store(t) \/ thread_urlopen(t)

SpecThreads == InitThreads /\ [][NextThreads]_vars

(***************************************************************************)
(* The example programs of examples/: group_membership.py, find_group.py,   *)
(* user_status.py and update_password.py.  A program constructs its client  *)
(* from the environment, calls operations one after the other and exits     *)
(* with status 0 or 1.  The service holds one user, "u1", which another     *)
(* client can modify while a program runs.                                  *)
(***************************************************************************)
Programs ==
    {"group_membership add", "group_membership remove", "group_membership list",
     "find_group", "find_group --by-id", "user_status status", "user_status enable",
     "user_status disable", "update_password"}
UpdatePrograms == {"user_status enable", "user_status disable", "update_password"}

NewPassword == PyStr("n3w")

\* the user the service holds
RemoteUser(active) ==
    PyDict([id |-> PyStr("u1"), active |-> PyBool(active), userName |-> PyStr("joe")])

HasKey(x, k) == x.t = "dict" /\ k \in DOMAIN x.v

\* the dict x without its key k
Without(x, k) == PyDict([j \in DOMAIN x.v \ {k} |-> x.v[j]])

\* the JSON text the service sends for the user u it holds
UserBody(u) ==
    <<"{", "id", ":", u.v.id.v, ",", "userName", ":", u.v.userName.v>>
        \o (IF HasKey(u, "active")
            THEN <<",", "active", ":", IF u.v.active.v THEN "true" ELSE "false">>
            ELSE <<>>)
        \o <<"}">>

\* what GET /Groups/<id> may be answered with: a group without members, with
\* one member that has no display name, with a member that has one and one
\* that has none, and a body that is no JSON object
GroupBodies ==
    {GroupItem,
     <<"{", "id", ":", "g1", ",", "members", ":", "[",
       "{", "value", ":", "u1", "}", "]", "}">>,
     <<"{", "id", ":", "g1", ",", "members", ":", "[",
       "{", "value", ":", "u1", ",", "display", ":", "joe", "}", ",",
       "{", "value", ":", "u2", "}", "]", "}">>,
     <<"[", "]">>}

\* where a program stands after a step: it has exited with a status, or it
\* goes on to its next call
Exit(status, l) == [stage |-> "exit", locals |-> l, status |-> status]
Goto(s, l) == [stage |-> s, locals |-> l, status |-> -1]

\* (mutant) find_group_by_name without its `len(groups) > 1` check
find_group_by_name_first(r) ==
    IF r.kind = "raise" \/ ~r.ok THEN [error |-> TRUE, item |-> None]
    ELSE IF r.payload.v = <<>> THEN [error |-> TRUE, item |-> None]
    ELSE [error |-> FALSE, item |-> r.payload.v[1]]

\* find_group_by_name of group_membership.py, given what find_group returned
\* or raised: the one group found, or an error
find_group_by_name(r) ==
    IF r.kind = "raise" \/ ~r.ok THEN [error |-> TRUE, item |-> None]
    ELSE IF r.payload.v = <<>> THEN [error |-> TRUE, item |-> None]
    ELSE IF Len(r.payload.v) > 1 THEN [error |-> TRUE, item |-> None]
    ELSE [error |-> FALSE, item |-> r.payload.v[1]]

\* find_user_by_username of group_membership.py, user_status.py and
\* update_password.py, given what find_users returned or raised
find_user_by_username(r) ==
    IF r.kind = "raise" \/ ~r.ok THEN [error |-> TRUE, item |-> None]
    ELSE IF r.payload.v = <<>> THEN [error |-> TRUE, item |-> None]
    ELSE IF Len(r.payload.v) > 1 THEN [error |-> TRUE, item |-> None]
    ELSE [error |-> FALSE, item |-> r.payload.v[1]]

\* main of find_group.py by name: more than one match is only a warning
first_group(r) ==
    IF r.kind = "raise" \/ ~r.ok THEN [error |-> TRUE, item |-> None]
    ELSE IF r.payload.v = <<>> THEN [error |-> TRUE, item |-> None]
    ELSE [error |-> FALSE, item |-> r.payload.v[1]]

\* the program, after find_group has returned or raised r
after_find_group(l, r) ==
    LET m == IF cli = "find_group" THEN first_group(r) ELSE find_group_by_name(r)
    IN  IF m.error THEN Exit(1, l)
        ELSE IF cli \in {"group_membership add", "group_membership remove"}
        THEN Goto("find_users", [l EXCEPT !.group = m.item])
        \* group["id"] raises KeyError when the group found has no id
        ELSE IF ~HasKey(m.item, "id") THEN Exit(1, l)
        ELSE Goto("get_group", [l EXCEPT !.group = m.item])

\* the program, after find_users has returned or raised r
after_find_users(l, r) ==
    LET m == find_user_by_username(r)
    IN  IF m.error THEN Exit(1, l)
        ELSE IF ~HasKey(m.item, "id") THEN Exit(1, l)
        ELSE IF cli \in {"group_membership add", "group_membership remove"}
        THEN IF HasKey(m.item, "userName") /\ HasKey(l.group, "id")
             THEN Goto("patch", [l EXCEPT !.user = m.item])
             ELSE Exit(1, l)
        ELSE Goto("get_user", [l EXCEPT !.user = m.item])

\* the member lookup is made for a member with a value and no display name
NeedsLookup(member) == HasKey(member, "value") /\ ~HasKey(member, "display")

\* the next member from position i on for which get_user is called: its
\* position, 0 when there is none, -1 when member.get raises before
RECURSIVE NextLookup(_, _)
NextLookup(members, i) ==
    IF i > Len(members) THEN 0
    ELSE IF members[i].t # "dict" THEN -1
    ELSE IF NeedsLookup(members[i]) THEN i
    ELSE NextLookup(members, i + 1)

\* `for member in members:` from position i on, up to the next get_user
member_loop(l, i) ==
    LET j == NextLookup(l.members, i)
    IN  IF j = 0 THEN Exit(0, l)
        ELSE IF j = -1 THEN Exit(1, l)
        ELSE Goto("member", [l EXCEPT !.index = j])

\* list_members and print_group_table, after get_group has returned or
\* raised r; members is a list in every answer of the service
after_get_group(l, r) ==
    IF r.kind = "raise" \/ ~r.ok THEN Exit(1, l)
    ELSE IF r.payload.t # "dict" THEN Exit(1, l)
    ELSE IF ~HasKey(r.payload, "members") THEN Exit(0, l)
    ELSE IF r.payload.v.members.v = <<>> THEN Exit(0, l)
    ELSE member_loop([l EXCEPT !.members = r.payload.v.members.v], 1)

\* the try/except around the get_user of one member: whatever get_user
\* returned or raised, the member is printed and the loop goes on
after_member(l, r) == member_loop(l, l.index + 1)

\* (mutant) the PUT is made whatever the current status is
set_active_always(l, full_user, enable) ==
    Goto("update_user",
         [l EXCEPT !.full_user = PyDict(("active" :> PyBool(enable)) @@ full_user.v)])

\* update_user_status from `current_status = full_user.get("active", False)`
set_active(l, full_user, enable) ==
    LET current_status == IF HasKey(full_user, "active") THEN full_user.v.active
                          ELSE PyBool(FALSE)
    IN  IF current_status.t = "bool" /\ current_status.v = enable
        THEN Exit(0, [l EXCEPT !.full_user = full_user])
        ELSE Goto("update_user",
                  [l EXCEPT !.full_user =
                                PyDict(("active" :> PyBool(enable)) @@ full_user.v)])

\* get_user_status, update_user_status and update_user_password, after
\* get_user has returned or raised r
after_get_user(l, r) ==
    IF r.kind = "raise" \/ ~r.ok THEN Exit(1, l)
    ELSE IF r.payload.t # "dict" THEN Exit(1, l)
    ELSE IF cli = "user_status status" THEN Exit(0, [l EXCEPT !.full_user = r.payload])
    ELSE IF cli = "update_password"
    THEN Goto("update_user",
              [l EXCEPT !.full_user = PyDict(("password" :> NewPassword) @@ r.payload.v)])
    ELSE set_active(l, r.payload, cli = "user_status enable")

\* the program, after its last operation has returned or raised r
after_last(l, r) == IF r.kind = "raise" \/ ~r.ok THEN Exit(1, l) ELSE Exit(0, l)

first_stage(program) ==
    CASE program = "find_group --by-id" -> "get_group"
      [] program \in {"group_membership add", "group_membership remove",
                      "group_membership list", "find_group"} -> "find_group"
      [] OTHER -> "find_users"

\* main up to `client = CatoSCIM()`: a ValueError of the constructor ends
\* the program with status 1
main ==
    /\ cli = "none"
    /\ ctor = "none"
    /\ \E program \in Programs :
         LET c == CatoSCIM_init(Omitted, Omitted, Omitted, environ)
         IN  /\ cli' = program
             /\ ctor_args' = [baseurl |-> Omitted, token |-> Omitted,
                              verify_ssl |-> Omitted]
             /\ ctor' = IF c.raised = "none" THEN "ok" ELSE c.raised
             /\ security_warnings' = security_warnings + c.warned
             /\ self' = c.self
             /\ stage' = IF c.raised = "none" THEN first_stage(program) ELSE "exit"
             /\ exit_status' = IF c.raised = "none" THEN -1 ELSE 1
    /\ UNCHANGED <<environ, urlopens, op, pc, acc, backend, sends, wire,
                   last_out, last_send, args, entry_count, result, members_seen,
                   replies, peer, in_use, locals, calls, remote>>
    /\ UNCHANGED thread_vars

\* client.find_group(group_name)
call_find_group ==
    /\ stage = "find_group"
    /\ EnterWith("find_group", [value |-> "plain"], {Directory("Groups")})

\* client.find_users("userName", username)
call_find_users ==
    /\ stage = "find_users"
    /\ EnterWith("find_users", [value |-> "plain", field |-> "userName"],
                 {Directory("Users")})

\* client.get_group(group["id"]), or client.get_group(args.identifier)
call_get_group ==
    /\ stage = "get_group"
    /\ LET g == IF cli = "find_group --by-id" THEN "g1" ELSE locals.group.v.id.v
       IN  Perform("get_group", [groupid |-> g], get_group_call(g),
                   Failures \cup {Response(b) : b \in GroupBodies})
    /\ UNCHANGED remote

\* client.get_user(member_id) for the member at locals.index
call_get_member ==
    /\ stage = "member"
    /\ LET u == locals.members[locals.index].v.value.v
       IN  Perform("get_user", [userid |-> u], get_user_call(u),
                   Failures \cup {Response(UserItem(u)), Response(<<"[", "]">>)})
    /\ UNCHANGED remote

\* client.get_user(user["id"]): the service answers with the user it holds,
\* with or without its active attribute
call_get_user ==
    /\ stage = "get_user"
    /\ LET u == locals.user.v.id.v
       IN  Perform("get_user", [userid |-> u], get_user_call(u),
                   Failures \cup {Response(UserBody(remote.user)),
                                  Response(UserBody(Without(remote.user, "active"))),
                                  Response(<<"[", "]">>)})
    /\ UNCHANGED remote

\* client.add_members(group["id"], members) of add_member and
\* client.remove_members(group["id"], members) of remove_member
call_patch ==
    /\ stage = "patch"
    /\ LET g == locals.group.v.id.v
           members == PyList(<<PyDict([value |-> locals.user.v.id,
                                       display |-> locals.user.v.userName])>>)
       IN  IF cli = "group_membership add"
           THEN Perform("add_members", [members |-> "found", groupid |-> g],
                        add_members_call(g, members), ResourceOutcomes)
           ELSE Perform("remove_members", [members |-> "found", groupid |-> g],
                        remove_members_call(g, members), ResourceOutcomes)
    /\ UNCHANGED remote

\* client.update_user(user["id"], full_user): a PUT that is answered 2xx
\* has replaced the user the service holds by the body sent
call_update_user ==
    /\ stage = "update_user"
    /\ LET u == locals.user.v.id.v
       IN  Perform("update_user", [data |-> "fetched", userid |-> u],
                   update_user_call(u, locals.full_user),
                   Failures \cup {Response(UserBody(locals.full_user))})
    /\ remote' = IF last_out'.kind = "ok"
                 THEN [remote EXCEPT !.user = locals.full_user]
                 ELSE remote

\* the program takes what the operation returned or raised and goes on, or
\* exits
step ==
    /\ cli # "none"
    /\ stage # "exit"
    /\ pc = "idle"
    /\ result.kind # "none"
    /\ LET d == CASE stage = "find_group" -> after_find_group(locals, result)
                  [] stage = "find_users" -> after_find_users(locals, result)
                  [] stage = "get_group" -> after_get_group(locals, result)
                  [] stage = "member" -> after_member(locals, result)
                  [] stage = "get_user" -> after_get_user(locals, result)
                  [] OTHER -> after_last(locals, result)
       IN  /\ stage' = d.stage
           /\ exit_status' = d.status
           /\ locals' = d.locals
    /\ calls' = Append(calls, [op |-> op, sends |-> sends, wire |-> wire,
                               result |-> result, stage |-> stage])
    /\ op' = "none"
    /\ acc' = <<>>
    /\ backend' = NoBackend
    /\ sends' = <<>>
    /\ wire' = <<>>
    /\ replies' = <<>>
    /\ last_out' = NoOutcome
    /\ last_send' = NoResult
    /\ args' = <<>>
    /\ result' = NoResult
    /\ entry_count' = self.call_count
    /\ UNCHANGED <<environ, ctor_args, ctor, security_warnings, self, urlopens, pc,
                   members_seen, peer, in_use, cli, remote>>
    /\ UNCHANGED thread_vars

\* the program has been answered by GET /Users/<id>
Fetched ==
    \/ op = "get_user" /\ stage = "get_user"
    \/ \E i \in DOMAIN calls : calls[i].stage = "get_user"
\* the program has sent its PUT
Stored == op = "update_user" \/ \E i \in DOMAIN calls : calls[i].op = "update_user"

\* another client of the service disables or renames the user, once, while
\* an updating program runs
other_client ==
    /\ cli \in UpdatePrograms
    /\ stage # "exit"
    /\ remote.other = "none"
    /\ \E change \in {"disable", "rename"} :
         /\ change = "disable" => HasKey(remote.user, "active") /\ remote.user.v.active.v
         /\ remote' =
              [user |-> IF change = "disable"
                        THEN PyDict([remote.user.v EXCEPT !.active = PyBool(FALSE)])
                        ELSE PyDict([remote.user.v EXCEPT !.userName = PyStr("joe2")]),
               other |-> change,
               when |-> IF Stored THEN "after" ELSE IF Fetched THEN "between"
                        ELSE "before"]
    /\ UNCHANGED <<environ, ctor_args, ctor, security_warnings, self, urlopens, op,
                   pc, acc, backend, sends, wire, last_out, last_send, args,
                   entry_count, result, members_seen, replies, peer, in_use>>
    /\ UNCHANGED <<thread_vars, cli_vars>>

\* a process that is about to run one of the programs, with or without the
\* token in its environment
InitPrograms ==
    /\ environ \in [CATO_SCIM_URL : {EnvUrl}, CATO_SCIM_TOKEN : {None, EnvToken}]
    /\ ctor_args = <<>>
    /\ ctor = "none"
    /\ self = <<>>
    /\ peer = <<>>
    /\ remote \in {[user |-> RemoteUser(a), other |-> "none", when |-> "none"] :
                     a \in BOOLEAN}
    /\ Quiet

NextPrograms ==
    \/ main \/ step \/ other_client
    \/ call_find_group \/ find_group_loop \/ call_find_users \/ find_users_loop
    \/ call_get_group \/ call_get_member \/ call_get_user \/ call_patch
    \/ call_update_user

SpecPrograms == InitPrograms /\ [][NextPrograms]_vars

(***************************************************************************)
(* Properties.                                                             *)
(***************************************************************************)
PagedOps == {"find_group", "find_users", "get_groups", "get_users"}
SingleOps ==
    {"add_members", "create_group", "create_user", "disable_group", "disable_user",
     "get_group", "get_user", "remove_members", "rename_group", "update_group",
     "update_user"}

\* the operation last called has returned or raised
Finished == pc = "idle" /\ result.kind # "none"
\* the latest request was answered with an error, or not answered at all
Failed == last_out.kind \in {"http", "url", "exc"}

CeilDiv(n, p) == (n + p - 1) \div p
RequestsNeeded(b) == IF b.N = 0 THEN 1 ELSE CeilDiv(b.N, b.P)

\* C1: a paginated operation that ran against an offset-based backend of N
\* items served in pages of P, every request answered, returns (true, list)
\* with list the N items in server order, after exactly ceil(N/P) requests
\* (one request when N = 0).
C1_OffsetPagination ==
    (op \in PagedOps /\ Finished /\ backend.kind = "offset" /\ last_out.kind = "ok")
    => /\ result.kind = "return"
       /\ result.ok
       /\ result.payload.t = "list"
       /\ result.payload.v = [i \in 1..backend.N |-> PyInt(i)]
       /\ Len(wire) = RequestsNeeded(backend)
       /\ self.call_count - entry_count = RequestsNeeded(backend)

C1_Witness ==
    /\ op = "find_users"
    /\ Finished
    /\ backend = OffsetBackend(3, 2)
    /\ result.ok
    /\ Len(result.payload.v) = 3
    /\ Len(wire) = 2

\* C2: when a page request of a paginated operation fails, the operation has
\* returned (false, p) with p the error payload of that very send call, a
\* dict that holds none of the accumulated resources, and the failing
\* request is the last one the operation issued.
C2_PageFailureAborts ==
    (op \in PagedOps /\ last_send.kind = "return" /\ ~last_send.ok)
    => /\ pc = "idle"
       /\ result.kind = "return"
       /\ ~result.ok
       /\ result.payload.t = "dict"
       /\ result.payload.v = last_send.payload.v
       /\ DOMAIN result.payload.v \subseteq {"status", "reason", "error"}
       /\ acc = <<>>
       /\ self.call_count = entry_count + Len(wire)

C2_Witness ==
    /\ op = "get_users"
    /\ Finished
    /\ Len(wire) = 2
    /\ StartIndexOf(wire[2]) = 2
    /\ last_out.kind = "http"
    /\ ~result.ok
    /\ result.payload.v.status.v = 500

\* the latest 2xx body is no JSON text
Undecodable == last_out.kind = "ok" /\ ~Loads(Utf8DecodeReplace(last_out.body)).ok

\* C3: whatever the service or the transport did with the requests of an
\* operation, the operation returned a pair and raised nothing, and every
\* failure (HTTP error, transport failure, other failure, undecodable body)
\* gave (false, payload) with an error field.
C3_NeverRaises ==
    (Finished /\ last_out.kind # "none")
    => /\ result.kind = "return"
       /\ (Failed \/ (Undecodable /\ last_out.body # <<>>))
            => (~result.ok /\ result.payload.t = "dict"
                /\ "error" \in DOMAIN result.payload.v)

\* C4: an HTTP error status c with body b makes the operation return
\* (false, {status: c, error: b decoded}), a payload without reason, which
\* is the pair send returned.
C4_HttpErrorPayload ==
    last_out.kind = "http"
    => /\ Finished
       /\ result.kind = "return"
       /\ ~result.ok
       /\ result.payload.t = "dict"
       /\ DOMAIN result.payload.v = {"status", "error"}
       /\ result.payload.v.status.t = "int"
       /\ result.payload.v.status.v = last_out.code
       /\ result.payload.v.error.v = Utf8DecodeReplace(last_out.body)
       /\ last_send.kind = "return"
       /\ ~last_send.ok
       /\ last_send.payload.v = result.payload.v

C4_Witness ==
    /\ op = "get_user"
    /\ args.userid = "abc"
    /\ last_out.kind = "http"
    /\ last_out.code = 404
    /\ Finished
    /\ result.payload.v.status.v = 404
    /\ result.payload.v.error.v = <<"detail">>

SendInvoked ==
    /\ ctor = "ok"
    /\ \/ pc = "loop"
       \/ pc = "idle" /\ result.kind = "none" /\ result'.kind # "none"
\* ... and in which that invocation handed a request to urlopen
Issued == Len(wire') > (IF pc = "loop" THEN Len(wire) ELSE 0)

\* C6 as stated: every invocation of send increments call_count by exactly 1,
\* also one whose request cannot be built or whose body cannot be serialised.
C6_EveryInvocationCounts ==
    [][SendInvoked => self'.call_count = self.call_count + 1]_vars

\* C6 as amended: an invocation of send that hands its request to the network
\* increments call_count by exactly 1 whatever the outcome of the request; an
\* invocation that fails earlier (body not serialisable, request not
\* buildable) leaves call_count unchanged.
C6_IssuedRequestsCount ==
    [][SendInvoked =>
         IF Issued
         THEN self'.call_count = self.call_count + 1
         ELSE /\ self'.call_count = self.call_count
              /\ \/ last_send'.kind = "raise"
                    /\ last_send'.exc = "TypeError: not JSON serializable"
                 \/ last_send'.kind = "return" /\ ~last_send'.ok
                    /\ DOMAIN last_send'.payload.v = {"error"}
                    /\ ~UrlHasScheme(self.baseurl.v)]_vars

C6_Witness ==
    /\ op = "update_user"
    /\ Finished
    /\ last_out.kind = "exc"
    /\ entry_count = 1
    /\ self.call_count = 2

\* C7: call_count equals the number of network requests the client has
\* issued since construction (0 at first); it never decreases, and an
\* operation that has issued k requests has raised it by exactly k.
C7_CountsRequests ==
    /\ [](ctor = "ok" =>
            /\ self.call_count = urlopens
            /\ self.call_count = entry_count + Len(wire))
    /\ [][ctor = "ok" => self'.call_count >= self.call_count]_vars

C7_Witness ==
    /\ op = "get_groups"
    /\ Finished
    /\ Failed
    /\ entry_count = 1
    /\ Len(wire) = 2
    /\ self.call_count = 3

\* a configuration value that is not supplied: left out, None or empty
Absent(x) == x.t \in {"omitted", "NoneType"} \/ (x.t = "str" /\ x.v = "")

\* C8: construction raises the configuration error exactly when the base URL
\* or the token is supplied neither as argument nor in the environment; no
\* request has been issued then and no usable client exists.
C8_ConfigError ==
    ctor # "none"
    => /\ (ctor = "ValueError") <=>
             \/ Absent(ctor_args.baseurl) /\ Absent(environ.CATO_SCIM_URL)
             \/ Absent(ctor_args.token) /\ Absent(environ.CATO_SCIM_TOKEN)
       /\ ctor = "ValueError"
            => /\ urlopens = 0
               /\ op = "none"
               /\ "call_count" \notin DOMAIN self

C8_Witness ==
    /\ ctor = "ValueError"
    /\ ctor_args.baseurl = ArgUrl
    /\ ctor_args.token.t = "omitted"
    /\ environ.CATO_SCIM_URL = EnvUrl
    /\ environ.CATO_SCIM_TOKEN.t = "NoneType"

\* C9: base URL and token are the constructor argument when one is supplied
\* and the environment variable otherwise; without arguments both are the
\* environment's values and verify_ssl is true.
C9_ArgumentsFirst ==
    ctor = "ok"
    => /\ self.baseurl = IF Absent(ctor_args.baseurl) THEN environ.CATO_SCIM_URL
                         ELSE ctor_args.baseurl
       /\ self.token = IF Absent(ctor_args.token) THEN environ.CATO_SCIM_TOKEN
                       ELSE ctor_args.token
       /\ ctor_args.verify_ssl.t = "omitted" => self.verify_ssl = TRUE
       /\ ctor_args.verify_ssl.t # "omitted" => self.verify_ssl = ctor_args.verify_ssl.v
       /\ self.call_count >= 0

C9_Witness ==
    /\ ctor = "ok"
    /\ ctor_args.baseurl = ArgUrl
    /\ environ.CATO_SCIM_URL = EnvUrl
    /\ self.baseurl = ArgUrl
    /\ ctor_args.token.t = "omitted"
    /\ self.token = EnvToken
    /\ self.verify_ssl

\* C10: a 2xx answer with an empty body makes send return (true, {}); one
\* with a JSON body makes it return (true, the value the text denotes), for a
\* resource as for a list response.
C10_EmptyBodyIsEmptyObject ==
    last_out.kind = "ok"
    => /\ last_out.body \in {<<>>, <<"{", "}">>}
            => /\ last_send.kind = "return"
               /\ last_send.ok
               /\ last_send.payload.t = "dict"
               /\ DOMAIN last_send.payload.v = {}
       /\ last_out.body = <<"{", "id", ":", "1", "}">>
            => /\ last_send.kind = "return"
               /\ last_send.ok
               /\ last_send.payload.t = "dict"
               /\ DOMAIN last_send.payload.v = {"id"}
               /\ last_send.payload.v.id.t = "int"
               /\ last_send.payload.v.id.v = 1
       /\ \A r \in {<<>>, <<1>>, <<2, 1>>, <<1, 2>>, <<3>>}, n \in 0..MaxItems :
            last_out.body = ListBody(r, n)
            => /\ last_send.kind = "return"
               /\ last_send.ok
               /\ last_send.payload.t = "dict"
               /\ DOMAIN last_send.payload.v = {"Resources", "totalResults"}
               /\ last_send.payload.v.Resources.t = "list"
               /\ last_send.payload.v.Resources.v = [i \in DOMAIN r |-> PyInt(r[i])]
               /\ last_send.payload.v.totalResults.t = "int"
               /\ last_send.payload.v.totalResults.v = n
       /\ op \in SingleOps
            => /\ result.kind = last_send.kind
               /\ result.kind = "return" => /\ result.ok = last_send.ok
                                            /\ result.payload.t = last_send.payload.t
                                            /\ result.payload.v = last_send.payload.v

C10_Witness ==
    /\ op = "disable_user"
    /\ last_out.kind = "ok"
    /\ last_out.body = <<>>
    /\ Finished
    /\ result.kind = "return"
    /\ result.ok
    /\ result.payload.t = "dict"
    /\ DOMAIN result.payload.v = {}


\* the send call a step has just made can hand a request to urlopen: its body,
\* if any, serialises and the URL has a scheme
Buildable(s, call) ==
    /\ call.data.t = "NoneType" \/ Serialisable(call.data)
    /\ UrlHasScheme(s.baseurl.v)

\* C11 as stated: each invocation of send makes exactly one network attempt.
C11_ExactlyOneAttempt ==
    [][SendInvoked => urlopens' = urlopens + 1]_vars

\* C11 as amended: send never retries.  An invocation makes one network
\* attempt when its body serialises and its request can be built, and none
\* otherwise; an attempt that fails with an HTTP error or a transport failure
\* is not repeated: the invocation ends with (false, payload).
C11_NeverRetries ==
    [][SendInvoked =>
         LET call == sends'[Len(sends')]
             made == urlopens' - urlopens
         IN  /\ made = Len(wire') - (IF pc = "loop" THEN Len(wire) ELSE 0)
             /\ made = IF Buildable(self, call) THEN 1 ELSE 0
             /\ last_out'.kind \in {"http", "url"}
                  => /\ made = 1
                     /\ last_send'.kind = "return"
                     /\ ~last_send'.ok]_vars

C11_Witness ==
    /\ op = "get_group"
    /\ Finished
    /\ last_out.kind = "url"
    /\ Len(sends) = 1
    /\ Len(wire) = 1
    /\ urlopens = 3
    /\ entry_count = 2


\* send returned (true, r) with r a list response: a dict whose Resources is
\* a list and whose totalResults is an integer
ListResponse(r) ==
    /\ r.kind = "return"
    /\ r.ok
    /\ r.payload.t = "dict"
    /\ {"Resources", "totalResults"} \subseteq DOMAIN r.payload.v
    /\ r.payload.v.Resources.t = "list"
    /\ r.payload.v.totalResults.t = "int"

\* the paginated operation returns (true, list) in this step
ReturnsList(list) ==
    /\ pc' = "idle"
    /\ result'.kind = "return"
    /\ result'.ok
    /\ result'.payload.t = "list"
    /\ result'.payload.v = list

\* the paginated operation goes on to its next request with `list` accumulated
GoesOn(list) ==
    /\ pc' = "loop"
    /\ result'.kind = "none"
    /\ acc' = list

\* C12 as stated: a paginated operation returns as soon as it holds at least
\* totalResults items, totalResults being that of the response just received,
\* and not before; a first response with totalResults = 0 ends it after
\* exactly one request with (true, []).
C12_StopsAtTotalEmptyOnZero ==
    [][(pc = "loop" /\ ListResponse(last_send')) =>
         LET page == last_send'.payload.v
             grown == acc \o page.Resources.v
         IN  /\ IF Len(grown) >= page.totalResults.v
                THEN ReturnsList(grown) ELSE GoesOn(grown)
             /\ (wire = <<>> /\ page.totalResults.v = 0)
                  => /\ Len(wire') = 1
                     /\ ReturnsList(<<>>)]_vars

\* C12 as amended: a page that send returned successfully makes the operation
\* return (true, accumulated items) exactly when the items accumulated,
\* that page's included, number at least the totalResults of that page;
\* otherwise the loop goes on.  A first response with totalResults = 0 ends the
\* operation after exactly one request with (true, the resources of that
\* response), which is (true, []) when the response carries no resources.
C12_StopsAtLatestTotal ==
    [][(pc = "loop" /\ ListResponse(last_send')) =>
         LET page == last_send'.payload.v
             grown == acc \o page.Resources.v
         IN  /\ IF Len(grown) >= page.totalResults.v
                THEN ReturnsList(grown) ELSE GoesOn(grown)
             /\ (wire = <<>> /\ page.totalResults.v = 0)
                  => /\ Len(wire') = 1
                     /\ ReturnsList(page.Resources.v)
                     /\ page.Resources.v = <<>> => ReturnsList(<<>>)]_vars

\* the first response reported 3 resources and carried 1, the second reported
\* 0 and carried none: the operation returned the one resource it held
C12_Witness ==
    /\ op = "get_groups"
    /\ backend = AnyBackend
    /\ Finished
    /\ Len(wire) = 2
    /\ last_out.kind = "ok"
    /\ last_out.body = ListBody(<<>>, 0)
    /\ result.kind = "return"
    /\ result.ok
    /\ result.payload.t = "list"
    /\ result.payload.v = <<PyInt(1)>>


\* C13: a paginated operation whose every request either fails or is answered
\* with a totalResults of at most MaxItems and, while it holds fewer items than
\* that, with at least one resource, eventually returns.
C13_ProgressTerminates ==
    (pc = "loop" /\ backend.kind \in {"offset", "progress"})
        ~> (Finished /\ result.kind = "return")

C13_Witness ==
    /\ op = "get_groups"
    /\ backend = ProgressBackend
    /\ Finished
    /\ last_out.kind = "ok"
    /\ Len(wire) = 3
    /\ result.kind = "return"
    /\ result.ok
    /\ Len(result.payload.v) = 3

\* C14: against a service whose successful responses all report a
\* totalResults larger than what the operation holds, every successful
\* response sends the operation round its loop again, so it never returns a
\* list: it keeps issuing requests for as long as they are answered (in the
\* model: until a request fails or MaxCalls requests have been explored).
C14_NoIterationCap ==
    /\ [][(pc = "loop" /\ backend.kind = "stall" /\ last_out'.kind = "ok")
            => /\ pc' = "loop"
               /\ result'.kind = "none"
               /\ urlopens' = urlopens + 1
               /\ Len(wire') = Len(wire) + 1]_vars
    /\ [](backend.kind = "stall" /\ Finished
            => result.kind = "return" /\ ~result.ok)
    /\ (pc = "loop" /\ backend.kind = "stall")
         ~> \/ Finished /\ result.kind = "return" /\ ~result.ok
            \/ pc = "loop" /\ urlopens = MaxCalls

C14_Witness ==
    /\ op = "get_users"
    /\ backend = StallBackend
    /\ pc = "loop"
    /\ last_out.kind = "ok"
    /\ last_out.body = ListBody(<<>>, 1)
    /\ acc = <<>>
    /\ Len(wire) = MaxCalls


\* the operations that patch a group
PatchOps == {"add_members", "remove_members", "rename_group"}

\* C15: add_members, remove_members and rename_group each make one send call,
\* a PATCH to /Groups/{groupId}, whose body holds the PatchOp schema URN and
\* an Operations list with the single element {op: add, path: members,
\* value: members}, {op: remove, path: members, value: members} or
\* {op: replace, path: displayName, value: newName}; value is the caller's
\* argument as it was passed, and the request put on the wire is that call's.
C15_PatchBodies ==
    (op \in PatchOps /\ Finished)
    => /\ Len(sends) = 1
       /\ sends[1].method = "PATCH"
       /\ sends[1].path = <<"/Groups/", args.groupid>>
       /\ LET body == sends[1].data
              passed == IF op = "rename_group" THEN PyStr(args.new_name)
                        ELSE MembersArg(args.members)
          IN  /\ body.t = "dict"
              /\ DOMAIN body.v = {"schemas", "Operations"}
              /\ body.v.schemas = PyList(<<PyStr(PatchOpSchema)>>)
              /\ body.v.Operations.t = "list"
              /\ Len(body.v.Operations.v) = 1
              /\ LET o == body.v.Operations.v[1]
                 IN  /\ o.t = "dict"
                     /\ DOMAIN o.v = {"op", "path", "value"}
                     /\ o.v.op = PyStr(CASE op = "add_members" -> "add"
                                         [] op = "remove_members" -> "remove"
                                         [] op = "rename_group" -> "replace")
                     /\ o.v.path = PyStr(IF op = "rename_group" THEN "displayName"
                                         ELSE "members")
                     /\ o.v.value.t = passed.t
                     /\ o.v.value.v = passed.v
       /\ Len(wire) <= 1
       /\ wire # <<>>
            => /\ wire[1].method = "PATCH"
               /\ wire[1].url = <<self.baseurl.v, "/Groups/", args.groupid>>
               /\ wire[1].data = sends[1].data

C15_Witness ==
    /\ op = "remove_members"
    /\ args.groupid = "abc"
    /\ args.members = "one"
    /\ Finished
    /\ Len(wire) = 1
    /\ wire[1].method = "PATCH"
    /\ wire[1].data.v.Operations.v[1].v.op.v = "remove"
    /\ wire[1].data.v.Operations.v[1].v.value = MembersArg("one")
    /\ result.kind = "return"
    /\ result.ok


\* C16: the password in the body create_user posts is the caller's password,
\* unchanged, when one was passed; otherwise it is a string of exactly 10
\* characters, each an ASCII letter or a digit, made of the values the
\* random source returned during that very call.
C16_Password ==
    (op = "create_user" /\ Finished)
    => /\ Len(sends) = 1
       /\ sends[1].method = "POST"
       /\ sends[1].path = <<"/Users">>
       /\ sends[1].data.t = "dict"
       /\ LET password == sends[1].data.v.password
          IN  /\ password.t = "str"
              /\ IF args.password = "given"
                 THEN password.v = <<"s", "3", "c", "r", "e", "t", "!">>
                 ELSE /\ Len(password.v) = 10
                      /\ \A i \in 1..10 : password.v[i] \in AsciiLetters \cup Digits
                      /\ password.v = args.draws
              /\ wire # <<>> => wire[1].data.v.password = password

\* a second create_user call without password, whose ten draws were q, K, 7, ...
C16_Witness ==
    /\ op = "create_user"
    /\ Finished
    /\ args.password = "None"
    /\ entry_count = 1
    /\ Len(wire) = 1
    /\ wire[1].method = "POST"
    /\ wire[1].data.v.password.v = <<"q", "K", "7", "q", "K", "7", "q", "K", "7", "q">>
    /\ result.kind = "return"
    /\ result.ok


\* C17: a create_group call that leaves members out posts a body whose
\* members field is the empty list, whatever members the earlier create_group
\* calls on the client were given; a call that passes members posts those.
C17_FreshDefault ==
    (op = "create_group" /\ Finished)
    => /\ Len(sends) = 1
       /\ sends[1].method = "POST"
       /\ sends[1].path = <<"/Groups">>
       /\ sends[1].data.t = "dict"
       /\ LET members == sends[1].data.v.members
          IN  /\ args.members = "None"
                   => /\ members.t = "list"
                      /\ members.v = <<>>
              /\ args.members # "None"
                   => /\ members.t = MembersArg(args.members).t
                      /\ members.v = MembersArg(args.members).v
              /\ wire # <<>> => wire[1].data.v.members = members

\* an earlier call was given one member, this one none
C17_Witness ==
    /\ op = "create_group"
    /\ args.members = "None"
    /\ members_seen = "one"
    /\ Finished
    /\ Len(wire) = 1
    /\ wire[1].method = "POST"
    /\ wire[1].data.v.members.t = "list"
    /\ wire[1].data.v.members.v = <<>>
    /\ result.kind = "return"
    /\ result.ok


\* the documented method and path of each single-resource operation
Documented(o, a) ==
    CASE o = "create_user" -> [method |-> "POST", path |-> <<"/Users">>]
      [] o = "create_group" -> [method |-> "POST", path |-> <<"/Groups">>]
      [] o = "get_user" -> [method |-> "GET", path |-> <<"/Users/", a.userid>>]
      [] o = "update_user" -> [method |-> "PUT", path |-> <<"/Users/", a.userid>>]
      [] o = "disable_user" -> [method |-> "DELETE", path |-> <<"/Users/", a.userid>>]
      [] o = "get_group" -> [method |-> "GET", path |-> <<"/Groups/", a.groupid>>]
      [] o = "update_group" -> [method |-> "PUT", path |-> <<"/Groups/", a.groupid>>]
      [] o = "disable_group" -> [method |-> "DELETE", path |-> <<"/Groups/", a.groupid>>]
      [] o \in PatchOps -> [method |-> "PATCH", path |-> <<"/Groups/", a.groupid>>]

\* C18: a single-resource operation makes exactly one send call, with the
\* documented method and path, hands at most that one request to the network,
\* and gives its caller what that send call gave: the same pair when send
\* returned, on success as on failure, and the same exception when it raised.
C18_OneCallVerbatim ==
    (op \in SingleOps /\ Finished)
    => /\ Len(sends) = 1
       /\ sends[1].method = Documented(op, args).method
       /\ sends[1].path = Documented(op, args).path
       /\ Len(wire) = IF Buildable(self, sends[1]) THEN 1 ELSE 0
       /\ wire # <<>>
            => /\ wire[1].method = Documented(op, args).method
               /\ wire[1].url = <<self.baseurl.v>> \o Documented(op, args).path
       /\ self.call_count = entry_count + Len(wire)
       /\ result.kind = last_send.kind
       /\ result.exc = last_send.exc
       /\ result.kind = "return"
            => /\ result.ok = last_send.ok
               /\ result.payload.t = last_send.payload.t
               /\ result.payload.v = last_send.payload.v
               /\ last_out.kind = "http"
                    => /\ ~result.ok
                       /\ result.payload.v.status.v = last_out.code
               /\ last_out.kind = "ok" => result.ok

C18_Witness ==
    /\ op = "update_group"
    /\ args.groupid = "abc"
    /\ args.data = "full"
    /\ Finished
    /\ Len(sends) = 1
    /\ Len(wire) = 1
    /\ wire[1].method = "PUT"
    /\ wire[1].url = <<"https://env.example/scim", "/Groups/", "abc">>
    /\ last_out.kind = "http"
    /\ last_out.code = 500
    /\ result.kind = "return"
    /\ ~result.ok
    /\ result.payload.v.status.v = 500


\* the constructor was called with verify_ssl=False and with a base URL and
\* a token available
InsecureConstruction ==
    /\ ctor \notin {"none", "ValueError"}
    /\ ctor_args.verify_ssl.t = "bool"
    /\ ~ctor_args.verify_ssl.v

\* C19: constructing a client with TLS verification disabled yields a client
\* that performs its requests, and the security warning has been emitted
\* exactly once, at construction, however many requests the client has issued
\* since.
C19_OneWarningPerClient ==
    InsecureConstruction
    => /\ ctor = "ok"
       /\ security_warnings = 1
       /\ self.verify_ssl = FALSE
       /\ self.call_count = urlopens


\* the token the client was constructed with
ConstructionToken ==
    IF Absent(ctor_args.token) THEN environ.CATO_SCIM_TOKEN.v ELSE ctor_args.token.v

\* the operations that pass a body to send
BodyOps ==
    {"create_user", "create_group", "update_user", "update_group",
     "add_members", "remove_members", "rename_group"}

\* C20: every request an operation hands to the network carries exactly the
\* headers Authorization: Bearer <the token of the construction> and
\* Content-Type: application/json; its body is the one the operation passed
\* to send, and there is none for a GET or a DELETE nor for any operation
\* that passes none.
C20_HeadersAndBody ==
    /\ wire # <<>> => Len(wire) = Len(sends)
    /\ \A i \in 1..Len(wire) :
         /\ DOMAIN wire[i].headers = {"Authorization", "ContentType"}
         /\ wire[i].headers.Authorization = "Bearer " \o ConstructionToken
         /\ wire[i].headers.ContentType = "application/json"
         /\ wire[i].data.t = sends[i].data.t
         /\ wire[i].data.v = sends[i].data.v
         /\ wire[i].method \in {"GET", "DELETE"} => wire[i].data.t = "NoneType"
         /\ (wire[i].data.t # "NoneType") <=> (op \in BodyOps)

C20_Witness ==
    /\ ctor_args.token = ArgToken
    /\ environ.CATO_SCIM_TOKEN = EnvToken
    /\ op = "create_group"
    /\ Finished
    /\ Len(wire) = 1
    /\ wire[1].method = "POST"
    /\ wire[1].headers.Authorization = "Bearer arg-token"
    /\ wire[1].headers.ContentType = "application/json"
    /\ wire[1].data.t = "dict"
    /\ entry_count = 1



\* the Resources array of the reply `out`, empty when the request failed or
\* the body is no list response
PageOf(out) ==
    IF out.kind # "ok" THEN <<>>
    ELSE LET r == DecodeResponse(out.body)
         IN  IF ListResponse(r) THEN r.payload.v.Resources.v ELSE <<>>

\* the Resources arrays of the first n replies, one after the other
RECURSIVE Concat(_, _)
Concat(outs, n) == IF n = 0 THEN <<>> ELSE Concat(outs, n - 1) \o PageOf(outs[n])

\* C23: within one paginated operation every request that has been sent has
\* got its reply before the next one is sent; the startIndex of each request
\* is the number of resources received in the replies before it (0 for the
\* first), which is what the operation has accumulated when it sends it; and
\* no step of the client sends more than one request.
C23_OneAtATime ==
    /\ [](op \in PagedOps =>
            /\ Len(replies) = Len(wire)
            /\ Len(sends) = Len(wire) \/ ~UrlHasScheme(self.baseurl.v)
            /\ \A i \in 1..Len(wire) :
                 StartIndexOf(wire[i]) = Len(Concat(replies, i - 1))
            /\ pc = "loop" => /\ acc = Concat(replies, Len(replies))
                              /\ \A i \in 1..Len(replies) : replies[i].kind = "ok")
    /\ [][(pc = "loop" \/ pc' = "loop") =>
            /\ Len(wire') <= Len(wire) + 1
            /\ Len(wire') = Len(wire) + 1
                 => /\ pc = "loop"
                    /\ StartIndexOf(wire'[Len(wire')]) = Len(acc)]_vars

C23_Witness ==
    /\ op = "get_users"
    /\ backend = OffsetBackend(3, 1)
    /\ Finished
    /\ Len(wire) = 3
    /\ Len(replies) = 3
    /\ StartIndexOf(wire[1]) = 0
    /\ StartIndexOf(wire[2]) = 1
    /\ StartIndexOf(wire[3]) = 2
    /\ result.ok

\* the totalResults of the reply `out`
TotalOf(out) == DecodeResponse(out.body).payload.v.totalResults.v

\* C24: whatever the service answered, when a paginated operation returns
\* (true, list), every request of the call was answered with a list response
\* and list is the Resources arrays of these responses one after the other,
\* in request order and in page order, repeated resources included; it has
\* at least as many elements as the totalResults of the last response.
C24_Concatenation ==
    (op \in PagedOps /\ Finished /\ result.kind = "return" /\ result.ok)
    => /\ result.payload.t = "list"
       /\ replies # <<>>
       /\ \A i \in 1..Len(replies) :
            replies[i].kind = "ok" /\ ListResponse(DecodeResponse(replies[i].body))
       /\ result.payload.v = Concat(replies, Len(replies))
       /\ Len(result.payload.v) >= TotalOf(replies[Len(replies)])

\* two pages that hold the same resource
C24_Witness ==
    /\ op = "get_groups"
    /\ backend = AnyBackend
    /\ Finished
    /\ result.kind = "return"
    /\ result.ok
    /\ Len(replies) = 2
    /\ PageOf(replies[1]) = <<PyInt(1)>>
    /\ PageOf(replies[2]) = <<PyInt(2), PyInt(1)>>
    /\ result.payload.v = <<PyInt(1), PyInt(2), PyInt(1)>>
    /\ TotalOf(replies[2]) = 3

\* C25: find_group returns every resource the service reports for the
\* filter, be it none, one or several: against a service holding N matches
\* that answers every request it returns (true, the N matches); with one
\* match, reported with
\* totalResults = 1 on the first page, it returns (true, [that group]) after
\* one request.
C25_NoCardinalityCheck ==
    (op = "find_group" /\ Finished /\ backend.kind = "offset" /\ replies # <<>>
        /\ \A i \in 1..Len(replies) : replies[i].kind = "ok")
    => /\ result.kind = "return"
       /\ result.ok
       /\ result.payload.t = "list"
       /\ Len(result.payload.v) = backend.N
       /\ result.payload.v = Concat(replies, Len(replies))
       /\ backend.N = 1
            => /\ Len(wire) = 1
               /\ TotalOf(replies[1]) = 1
               /\ result.payload.v = <<PyInt(1)>>

\* a name that matches several groups
C25_Witness ==
    /\ op = "find_group"
    /\ backend = OffsetBackend(3, 2)
    /\ Finished
    /\ result.ok
    /\ Len(result.payload.v) = 3
    /\ Len(wire) = 2



\* urllib.parse.unquote, which the service applies to a query parameter
UnquoteChar(c) ==
    CASE c = "%20" -> " "
      [] c = "%22" -> "\""
      [] c = "%26" -> "&"
      [] c = "%3D" -> "="
      [] c = "%23" -> "#"
      [] c = "%25" -> "%"
      [] OTHER -> c
Unquote(text) == [i \in DOMAIN text |-> UnquoteChar(text[i])]

\* the characters that end or split a query parameter, and those of the
\* filter syntax
QueryDelimiters == {"&", "=", "#", " ", "\""}

\* the encoded filter parameter of a search request: what stands between
\* "filter=" and "&startIndex="
FilterParam(req) == SubSeq(req.url, 3, Len(req.url) - 2)

\* C26: every request of find_users and find_group has the query
\* filter=<encoded>&startIndex=<n>, where <encoded> percent-decodes to exactly
\* <field> eq "<value>" (displayName for find_group) and holds none of the
\* characters & = # space and double quote, so that the value adds or alters
\* no query parameter.
C26_FilterEncoding ==
    op \in {"find_users", "find_group"}
    => \A i \in 1..Len(wire) :
         LET url == wire[i].url
             field == IF op = "find_group" THEN "displayName" ELSE args.field
         IN  /\ url[1] = self.baseurl.v
             /\ url[2] = IF op = "find_group" THEN "/Groups?filter=" ELSE "/Users?filter="
             /\ url[Len(url) - 1] = "&startIndex="
             /\ url[Len(url)] = ToString(Len(Concat(replies, i - 1)))
             /\ Unquote(FilterParam(wire[i])) = FilterExpr(field, SearchValue(args.value))
             /\ \A k \in DOMAIN FilterParam(wire[i]) :
                  FilterParam(wire[i])[k] \notin QueryDelimiters

\* a value made of the characters that would split the query
C26_Witness ==
    /\ op = "find_users"
    /\ args.value = "special"
    /\ Len(wire) = 2
    /\ wire[2].url =
         <<"https://env.example/scim", "/Users?filter=", "userName", "%20", "eq",
           "%20", "%22", "a", "%26", "b", "%3D", "1", "%20", "%23", "%25", "%22",
           "/", "%22", "&startIndex=", "1">>



\* the attributes of the client constructed first (x = 1) or second (x = 2)
Instance(x) == IF x = in_use THEN self ELSE peer

\* C27: once constructed, a client keeps its base URL, its token and its
\* TLS-verification flag through every operation, and has no other attribute
\* than these and its call counter; a step in which an operation runs on one
\* client leaves the counter of the other client as it was.
C27_OnlyOwnCounter ==
    [][\A x \in {1, 2} :
         /\ DOMAIN Instance(x)' = {"baseurl", "token", "verify_ssl", "call_count"}
         /\ Instance(x)'.baseurl = Instance(x).baseurl
         /\ Instance(x)'.token = Instance(x).token
         /\ Instance(x)'.verify_ssl = Instance(x).verify_ssl
         /\ Instance(x)'.call_count >= Instance(x).call_count
         /\ (x # in_use \/ in_use' # in_use)
              => Instance(x)'.call_count = Instance(x).call_count]_vars

\* both clients have been used, one of them twice
C27_Witness ==
    /\ in_use = 2
    /\ op = "update_user"
    /\ Finished
    /\ self.baseurl = ArgUrl
    /\ self.call_count = 1
    /\ peer.baseurl = EnvUrl
    /\ peer.call_count = 2



\* C28: with two threads calling one client, whenever no thread is inside
\* send the counter has grown by the number of send invocations made.
C28_NoLostIncrement ==
    (\A t \in Threads : tpc[t] = "idle") => self.call_count = invoked


\* the operation call i of the program reported failure: it returned
\* (false, ...) or raised
ReportedFailure(i) == calls[i].result.kind = "raise" \/ ~calls[i].result.ok

\* C21: an example program exits with a nonzero status whenever the
\* construction of its client failed or any operation it called reported
\* failure, the get_user lookups made for the members of a group included.
C21_ExitNonzeroOnFailure ==
    exit_status = 0
    => /\ ctor = "ok"
       /\ \A i \in DOMAIN calls : ~ReportedFailure(i)

\* C21, without the lookups of members: holds
ExitNonzeroButMembers ==
    exit_status = 0
    => /\ ctor = "ok"
       /\ \A i \in DOMAIN calls : calls[i].stage # "member" => ~ReportedFailure(i)


\* call i of the program was a search that succeeded with exactly one match
FoundOne(i) ==
    /\ calls[i].result.kind = "return"
    /\ calls[i].result.ok
    /\ Len(calls[i].result.payload.v) = 1

\* C22: the add and remove programs of group_membership.py call find_group,
\* then find_users, then the PATCH operation; the PATCH request is sent
\* only after both searches succeeded with exactly one match each; once a
\* step has failed or was ambiguous the program makes no further call and
\* reports failure.
C22_FindFindPatch ==
    cli \in {"group_membership add", "group_membership remove"}
    => /\ Len(calls) <= 3
       /\ \A i \in DOMAIN calls :
            /\ calls[i].stage = <<"find_group", "find_users", "patch">>[i]
            /\ calls[i].op =
                  <<"find_group", "find_users",
                    IF cli = "group_membership add" THEN "add_members"
                    ELSE "remove_members">>[i]
            /\ (ReportedFailure(i) \/ (i < 3 /\ ~FoundOne(i)))
               => i = Len(calls) /\ stage = "exit" /\ exit_status = 1
       /\ op \in {"add_members", "remove_members"}
          => Len(calls) = 2 /\ FoundOne(1) /\ FoundOne(2)
       /\ stage = "exit" => op = "none"
       /\ \A i \in DOMAIN calls : i < 3 => \A j \in DOMAIN calls[i].wire :
              calls[i].wire[j].method = "GET"

C22_Witness ==
    /\ cli = "group_membership remove"
    /\ op = "remove_members"
    /\ Len(wire) = 1
    /\ wire[1].method = "PATCH"
    /\ result.kind = "return"
    /\ result.ok
    /\ Len(calls) = 2


\* the requests of the program's update_user call, sent so far
PutRequests ==
    IF op = "update_user" THEN wire
    ELSE IF Len(calls) = 3 THEN calls[3].wire
    ELSE <<>>

\* full_user.get("active", False) of the user fetched
ActiveOf(x) == IF HasKey(x, "active") THEN x.v.active.v ELSE FALSE

\* C29: update_user_status calls find_users, get_user and update_user in
\* this order; it sends no PUT and reports success when the active value of
\* the user fetched already equals the one requested, and otherwise sends
\* exactly one PUT whose body is the user fetched with only active changed;
\* it sends no PUT when the search or the GET failed or the search matched
\* no user or more than one.
C29_UpdateUserStatus ==
    cli \in {"user_status enable", "user_status disable"}
    => LET enable == cli = "user_status enable"
       IN  /\ Len(calls) <= 3
           /\ \A i \in DOMAIN calls :
                /\ calls[i].op = <<"find_users", "get_user", "update_user">>[i]
                /\ calls[i].stage = calls[i].op
           /\ op # "none" => op = <<"find_users", "get_user", "update_user">>[Len(calls) + 1]
           /\ (Len(calls) >= 2 /\ ~ReportedFailure(2) /\ calls[2].result.payload.t = "dict"
                  /\ ActiveOf(calls[2].result.payload) = enable)
              => /\ Len(calls) = 2
                 /\ PutRequests = <<>>
                 /\ stage = "exit"
                 /\ exit_status = 0
           /\ PutRequests # <<>>
              => /\ FoundOne(1)
                 /\ ~ReportedFailure(2)
                 /\ LET fetched == calls[2].result.payload.v
                        put == PutRequests[1]
                    IN  /\ Len(PutRequests) = 1
                        /\ ActiveOf(calls[2].result.payload) # enable
                        /\ put.method = "PUT"
                        /\ put.url = <<self.baseurl.v, "/Users/", calls[1].result.payload.v[1].v.id.v>>
                        /\ put.data.t = "dict"
                        /\ DOMAIN put.data.v = DOMAIN fetched \cup {"active"}
                        /\ put.data.v.active = PyBool(enable)
                        /\ \A k \in DOMAIN fetched \ {"active"} : put.data.v[k] = fetched[k]
           /\ (stage = "exit" /\ exit_status = 0 /\ Len(calls) = 3) => Len(PutRequests) = 1
           /\ (stage = "exit" /\ exit_status = 0) => Len(calls) >= 2

C29_Witness ==
    /\ cli = "user_status disable"
    /\ stage = "exit"
    /\ exit_status = 0
    /\ Len(calls) = 3
    /\ Len(calls[3].wire) = 1
    /\ calls[2].result.payload.v.active.v
    /\ ~calls[3].wire[1].data.v.active.v


\* what the other client changed is what the service holds
OtherChangeKept ==
    /\ remote.other = "rename" => remote.user.v.userName = PyStr("joe2")
    /\ remote.other = "disable" => ~ActiveOf(remote.user)

\* C30: a program that reads a user, changes its own field and writes the
\* user back (update_password.py, user_status.py) while another client
\* changes another field of the same user between the GET and the PUT
\* leaves the other client's change in place.
C30_ConcurrentChangeKept ==
    (/\ cli \in UpdatePrograms
     /\ stage = "exit"
     /\ exit_status = 0
     /\ remote.when = "between"
     /\ remote.other = "disable" => cli = "update_password")
    => OtherChangeKept

\* a change the other client made before the GET is in place when the
\* program has exited
ChangeBeforeGetKept ==
    (/\ cli \in UpdatePrograms
     /\ stage = "exit"
     /\ remote.when = "before"
     /\ remote.other = "disable" => cli = "update_password")
    => OtherChangeKept

====
